---- MODULE Spec2Model ----
(***************************************************************************)
(* Model of the domus backend core: the debounce/throttle manager          *)
(* (app/core/debounce.py), the notification service                        *)
(* (app/services/notification_service.py), the orchestrator's intent       *)
(* routing (app/agents/domus_orchestrator.py), the typed event bus         *)
(* (app/core/event_bus.py), the fridge agent and its observation buffer    *)
(* (app/agents/domus_fridge.py), the frame comparison                      *)
(* (app/services/temporal_comparison_service.py) and the confidence decay  *)
(* (app/services/confidence_decay_service.py).                             *)
(*                                                                         *)
(* uuid4() values are modelled as fresh integers drawn from nextId.  The   *)
(* server clock is an integer number of seconds.  Python's None is the     *)
(* string "None".  A notification record keeps the fields the code         *)
(* branches on or that the properties mention; title and message are       *)
(* formatted text that no branch reads and are left out.                  *)
(***************************************************************************)
EXTENDS Integers, Sequences, FiniteSets, TLC

VARIABLES
    now,          \* datetime.now(timezone.utc), in whole seconds
    ticks,        \* number of clock advances taken so far
    cache,        \* DebounceManager._cache : key -> time of last acceptance
    delivered,    \* NotificationService._delivered_notifications
    queue,        \* EventBus._event_queue
    nextId,       \* next value uuid4() returns
    ncalls,       \* number of create_notification calls made so far
    lastCall,     \* arguments, result and delivery calls of the latest create_notification
    subscribers,      \* EventBus._subscribers : event type -> list of handlers
    all_subscribers,  \* EventBus._all_subscribers
    running,          \* EventBus._running
    processed,        \* EventBus._processed_events
    tasks,            \* the tasks start() created, each running _process_events
    worker_task,      \* EventBus._worker_task : index into tasks, 0 for None
    dispatchLog,      \* summary of the dispatches that passed the duplicate check
    npub,             \* number of publish() calls made so far
    opResult,         \* the latest direct call of publish or of the debounce manager, and what it returned
    accepted,         \* key -> times of the should_accept calls accepted since the key was last reset
    unsubscribed,     \* the <<event type, handler>> pairs unsubscribed and not subscribed again since
    callers,          \* the tasks inside debounce_manager.should_accept, each with its position
    lock,             \* DebounceManager._lock : the task holding it, 0 when free
    history,          \* household -> DomusFridge._observation_history
    appended,         \* household -> every frame _store_observation was given, in order
    pending,          \* household -> the fridge agent's _pending_intents
    routed,           \* the intents handed to _route_intents so far, in order
    l1_agents,        \* the households of DomusOrchestrator._l1_agents, in registration order
    handling,         \* household -> the _handle_image_processing calls between lines 525 and 532
    requests,         \* the image requests of the API routes, finished or suspended
    trace             \* household -> the comparisons and appends on its buffer, in order

busVars == <<subscribers, all_subscribers, running, processed, tasks,
             worker_task, dispatchLog, npub>>

\* What the model records about calls, next to the program's own state.
obsVars == <<opResult, accepted, unsubscribed>>

\* The tasks inside the debounce manager and the state of the fridge agents.
agentVars == <<callers, lock, history, appended, pending, routed, l1_agents,
               handling, requests, trace>>

vars == <<now, ticks, cache, delivered, queue, nextId, ncalls, lastCall,
          subscribers, all_subscribers, running, processed, tasks,
          worker_task, dispatchLog, npub, opResult, accepted, unsubscribed,
          callers, lock, history, appended, pending, routed, l1_agents,
          handling, requests, trace>>

----------------------------------------------------------------------------
(* Bounds of the model *)

MaxTicks == 2
MaxCallsThrottle == 3
MaxCallsRouter == 1
MaxBatch == 1
MaxQueueOrch == 3
MaxPublishDedup == 4
MaxPublishBus == 1
MaxEventIdsBus == 1
MaxSubs == 2
MaxTasks == 1
MaxSubsOrder == 2
MaxPublishOrder == 2
MaxTasksOrder == 1
MaxSubsUnsub == 2
MaxPublishUnsub == 1
MaxPublishTyped == 2
MaxPublishLive == 2
MaxSubsLive == 1
MaxTasksLive == 1
MaxRequests == 2
MaxUploads == 2
MaxTicksRoutes == 1
MaxTasksRestart == 2
MaxPublishRestart == 2
MaxHoursDecay == 6
MaxEmitted == 3
MaxPendingFridge == 7
MaxFramesBuffer == 12
MaxHistory == 5
MaxItems == 2
MaxCallers == 2

\* The processed-id cache of the bus holds up to 10,000 ids and is cut to
\* 5,000 on overflow; the model keeps the mechanism and scales both sizes.
MaxProcessedCache == 2
TrimKeep == 1

----------------------------------------------------------------------------
(* Program constants *)

None == "None"

ExpiryThrottleSeconds == 86400

IN_APP == "in_app"
PUSH == "push"
ALEXA == "alexa"
EMAIL == "email"

PERISHABLE_EXPIRY == "perishable_expiry"
HARDWARE_DISCONNECTED == "hardware_disconnected"

PENDING == "pending"
DELIVERED == "delivered"

NOTIFICATION_CREATED == "notification.created"

NotificationTypes ==
    { "perishable_expiry", "procurement_required", "procurement_approval",
      "calendar_event_ingredient_missing", "hardware_disconnected",
      "bulk_buy_opportunity" }

NotificationSeverities == { "low", "medium", "high", "urgent" }

NotificationChannels == { IN_APP, PUSH, ALEXA, EMAIL }

\* The values of the members of EventType.
EventTypeValues ==
    { "image.uploaded", "image.validated", "image.rejected", "inventory.updated",
      "intent.expiry_warning", "intent.require_procurement",
      "intent.detected_expiry", "intent.bulk_buy_opportunity",
      "intent.item_added", "intent.item_removed", "intent.item_moved",
      "intent.consumption_likely", "intent.calendar_ingredient_missing",
      "notification.created", "notification.delivered", "notification.failed",
      "iot.image_received", "hardware.disconnected",
      "agent.started", "agent.stopped", "system.error" }

\* The event types the bus is exercised with.
BusEventTypes == { "inventory.updated", NOTIFICATION_CREATED }

----------------------------------------------------------------------------
(* Helpers *)

Range(s) == { s[i] : i \in DOMAIN s }

Count(s, x) == Cardinality({ i \in DOMAIN s : s[i] = x })

\* All lists holding each element of the set S exactly once: the lists that
\* list(S) can be, since the iteration order of a Python set of strings
\* depends on the per-process hash seed.
Orderings(S) ==
    { f \in [1..Cardinality(S) -> S] : \A x \in S : \E i \in DOMAIN f : f[i] = x }

----------------------------------------------------------------------------
(* app/core/debounce.py *)

\* f"expiry_notification:{household_id}:{item_id}"
ExpiryKey(household_id, item_id) ==
    "expiry_notification:" \o household_id \o ":" \o item_id

\* should_accept with `elapsed > debounce_seconds` in place of `>=`.
ShouldAccept_StrictInterval(c, key, debounce_seconds, t) ==
    IF key \notin DOMAIN c
    THEN [accepted |-> TRUE,
          cache |-> [k \in DOMAIN c \cup {key} |-> IF k = key THEN t ELSE c[k]]]
    ELSE IF t - c[key] > debounce_seconds
         THEN [accepted |-> TRUE, cache |-> [c EXCEPT ![key] = t]]
         ELSE [accepted |-> FALSE, cache |-> c]

\* should_accept recording the time of a rejected call as well.
ShouldAccept_RecordsOnReject(c, key, debounce_seconds, t) ==
    IF key \notin DOMAIN c
    THEN [accepted |-> TRUE,
          cache |-> [k \in DOMAIN c \cup {key} |-> IF k = key THEN t ELSE c[k]]]
    ELSE [accepted |-> t - c[key] >= debounce_seconds,
          cache |-> [c EXCEPT ![key] = t]]

\* DebounceManager.should_accept: the value returned and the cache it leaves.
ShouldAccept(c, key, debounce_seconds, t) ==
    IF key \notin DOMAIN c
    THEN [accepted |-> TRUE,
          cache |-> [k \in DOMAIN c \cup {key} |-> IF k = key THEN t ELSE c[k]]]
    ELSE IF t - c[key] >= debounce_seconds
         THEN [accepted |-> TRUE, cache |-> [c EXCEPT ![key] = t]]
         ELSE [accepted |-> FALSE, cache |-> c]

ShouldSendExpiryNotification(c, household_id, item_id, t) ==
    ShouldAccept(c, ExpiryKey(household_id, item_id), ExpiryThrottleSeconds, t)

----------------------------------------------------------------------------
(* app/services/notification_service.py *)

\* `if source_id:` taken for every source id, None included.
Truthy_Always(s) == TRUE

\* Truth value of `if source_id:` for an Optional[str].
Truthy(s) == s # None /\ s # ""

\* The list _determine_channels builds before it removes duplicates.
ChannelAppends(severity, notification_type) ==
    <<IN_APP>>
    \o (IF severity \in {"high", "urgent"} THEN <<PUSH>> ELSE <<>>)
    \o (IF notification_type = HARDWARE_DISCONNECTED THEN <<PUSH>> ELSE <<>>)
    \o (IF severity = "urgent" THEN <<ALEXA>> ELSE <<>>)

\* _determine_channels without the always-included in-app channel.
DetermineChannels_NoInApp(severity, notification_type) ==
    Orderings(Range(Tail(ChannelAppends(severity, notification_type))))

\* _determine_channels returning the list without removing duplicates.
DetermineChannels_NoDedup(severity, notification_type) ==
    { ChannelAppends(severity, notification_type) }

\* _determine_channels: the lists list(set(channels)) can return.
DetermineChannels(severity, notification_type) ==
    Orderings(Range(ChannelAppends(severity, notification_type)))

\* _deliver_in_app only logs and returns True.
DeliverInApp == "ok"

\* One call of the channel's delivery coroutine: "ok" (returns True) or
\* "raise".  _deliver_push and _deliver_alexa append to a log file and raise
\* when that fails; raises is the set of channels whose file cannot be
\* written during this create_notification call.
Deliver(channel, raises) ==
    IF channel = IN_APP THEN DeliverInApp
    ELSE IF channel \in raises THEN "raise" ELSE "ok"

\* _deliver_to_channel: success flag and the delivery calls it made.
DeliverToChannel(channel, raises) ==
    IF channel \notin NotificationChannels
    THEN [success |-> FALSE, calls |-> <<>>]
    ELSE IF Deliver(channel, raises) = "ok"
    THEN [success |-> TRUE, calls |-> <<channel>>]
    ELSE \* except Exception: retry once, in-app only
         IF channel = IN_APP
         THEN [success |-> (DeliverInApp = "ok"), calls |-> <<channel, IN_APP>>]
         ELSE [success |-> FALSE, calls |-> <<channel>>]

\* The notification dict of lines 79-94.
NewNotification(id, household_id, notification_type, severity, source_id, context, t) ==
    [id |-> id,
     household_id |-> household_id,
     notification_type |-> notification_type,
     severity |-> severity,
     context |-> context,
     source_id |-> source_id,
     created_at |-> t,
     delivery_status |-> PENDING,
     channels_attempted |-> <<>>,
     channels_delivered |-> <<>>]

\* The loop `for channel in channels` of lines 100-105; d carries the
\* notification and the delivery calls made so far.
RECURSIVE DeliverLoop(_, _, _)
DeliverLoop(d, channels, raises) ==
    IF channels = <<>> THEN d
    ELSE LET r == DeliverToChannel(Head(channels), raises)
             n1 == [d.n EXCEPT !.channels_attempted = Append(@, Head(channels))]
             n2 == IF r.success
                   THEN [n1 EXCEPT !.channels_delivered = Append(@, Head(channels))]
                   ELSE n1
         IN  DeliverLoop([n |-> n2, calls |-> d.calls \o r.calls], Tail(channels), raises)

\* Lines 107-115: delivery status, with the forced in-app fallback.
UpdateDeliveryStatus(d, raises) ==
    IF d.n.channels_delivered # <<>>
    THEN [n |-> [d.n EXCEPT !.delivery_status = DELIVERED], calls |-> d.calls]
    ELSE LET r == DeliverToChannel(IN_APP, raises)
         IN  [n |-> [d.n EXCEPT !.channels_delivered = Append(@, IN_APP),
                                !.delivery_status = DELIVERED],
              calls |-> d.calls \o r.calls]

\* The event built from the record as it stood before delivery bookkeeping.
NotificationCreatedEvent_BeforeBookkeeping(event_id, notification) ==
    [event_id |-> event_id,
     event_type |-> NOTIFICATION_CREATED,
     payload |-> [notification EXCEPT !.delivery_status = PENDING,
                                      !.channels_delivered = <<>>],
     source |-> "notification_service",
     household_id |-> notification.household_id]

\* The Event of lines 120-126.
NotificationCreatedEvent(event_id, notification) ==
    [event_id |-> event_id,
     event_type |-> NOTIFICATION_CREATED,
     payload |-> notification,
     source |-> "notification_service",
     household_id |-> notification.household_id]

\* The state create_notification leaves when called at time t with the given
\* cache, delivered list, queue and uuid counter.
CreateNotificationFrom(s, household_id, notification_type, severity, source_id, context, channels, raises, t) ==
    LET notification_id == s.nextId
        consult == notification_type = PERISHABLE_EXPIRY /\ Truthy(source_id)
        gate == IF consult
                THEN ShouldSendExpiryNotification(s.cache, household_id, source_id, t)
                ELSE [accepted |-> TRUE, cache |-> s.cache]
        args == [household_id |-> household_id,
                 notification_type |-> notification_type,
                 severity |-> severity,
                 source_id |-> source_id,
                 time |-> t,
                 raises |-> raises]
    IN  IF ~gate.accepted
        THEN [cache |-> gate.cache,
              delivered |-> s.delivered,
              queue |-> s.queue,
              nextId |-> s.nextId + 1,
              lastCall |-> [args |-> args,
                            status |-> "throttled",
                            notification_id |-> notification_id,
                            channels |-> <<>>,
                            calls |-> <<>>]]
        ELSE LET n0 == NewNotification(notification_id, household_id,
                                       notification_type, severity, source_id,
                                       context, t)
                 d1 == DeliverLoop([n |-> n0, calls |-> <<>>], channels, raises)
                 d2 == UpdateDeliveryStatus(d1, raises)
             IN  [cache |-> gate.cache,
                  delivered |-> Append(s.delivered, d2.n),
                  queue |-> Append(s.queue,
                                   NotificationCreatedEvent(s.nextId + 1, d2.n)),
                  nextId |-> s.nextId + 2,
                  lastCall |-> [args |-> args,
                                status |-> d2.n.delivery_status,
                                notification_id |-> notification_id,
                                channels |-> channels,
                                calls |-> d2.calls]]

ServiceState == [cache |-> cache, delivered |-> delivered, queue |-> queue,
                 nextId |-> nextId, lastCall |-> lastCall]

\* NotificationService.create_notification
CreateNotification(household_id, notification_type, severity, source_id, raises) ==
    \E channels \in DetermineChannels(severity, notification_type) :
        LET s == CreateNotificationFrom(ServiceState, household_id,
                                        notification_type, severity, source_id,
                                        <<>>, channels, raises, now)
        IN  /\ cache' = s.cache
            /\ delivered' = s.delivered
            /\ queue' = s.queue
            /\ nextId' = s.nextId
            /\ lastCall' = s.lastCall
            /\ ncalls' = ncalls + 1
            /\ UNCHANGED <<now, ticks>>
            /\ UNCHANGED busVars
            /\ UNCHANGED obsVars
            /\ UNCHANGED agentVars

----------------------------------------------------------------------------
(* The clock *)

\* One second, and one second short of the expiry throttle interval.
TickSteps == { 1, ExpiryThrottleSeconds - 1 }

Tick ==
    /\ ticks < MaxTicks
    /\ \E d \in TickSteps : now' = now + d
    /\ ticks' = ticks + 1
    /\ UNCHANGED <<cache, delivered, queue, nextId, ncalls, lastCall>>
    /\ UNCHANGED busVars
    /\ UNCHANGED obsVars
    /\ UNCHANGED agentVars

----------------------------------------------------------------------------
(* Initial state: module import, no call made yet *)

NoCall == [args |-> [household_id |-> None, notification_type |-> None,
                     severity |-> None, source_id |-> None, time |-> 0,
                     raises |-> {}],
           status |-> "none", notification_id |-> 0,
           channels |-> <<>>, calls |-> <<>>]

NoOp == [op |-> "none"]

\* The households that have a fridge agent.
Households == { "h1", "h2" }

Init ==
    /\ now = 0
    /\ ticks = 0
    /\ cache = << >>
    /\ delivered = << >>
    /\ queue = << >>
    /\ nextId = 1
    /\ ncalls = 0
    /\ lastCall = NoCall
    /\ subscribers = [ty \in BusEventTypes |-> << >>]
    /\ all_subscribers = << >>
    /\ running = FALSE
    /\ processed = {}
    /\ tasks = << >>
    /\ worker_task = 0
    /\ dispatchLog = [n |-> 0, ever |-> {}, sinceTrim |-> {}, invoked |-> {},
                      reinvoked |-> {}, last_id |-> 0, last_trimmed |-> FALSE]
    /\ npub = 0
    /\ opResult = NoOp
    /\ accepted = << >>
    /\ unsubscribed = {}
    /\ callers = << >>
    /\ lock = 0
    /\ history = [h \in Households |-> << >>]
    /\ appended = [h \in Households |-> << >>]
    /\ pending = [h \in Households |-> << >>]
    /\ routed = << >>
    /\ l1_agents = << >>
    /\ handling = [h \in Households |-> 0]
    /\ requests = << >>
    /\ trace = [h \in Households |-> << >>]

----------------------------------------------------------------------------
(* Throttling of direct create_notification calls *)

\* <<notification_type, household_id, source_id>> of the calls: expiry
\* notifications of two households with and without a source id, and a
\* notification of another type that carries a source id.
ThrottleInputs ==
    ({PERISHABLE_EXPIRY} \X {"h1", "h2"} \X {None, "milk"})
    \cup { <<"procurement_required", "h1", "milk">> }

ThrottleCall ==
    /\ ncalls < MaxCallsThrottle
    /\ \E inp \in ThrottleInputs :
           CreateNotification(inp[2], inp[1], "medium", inp[3], {})

NextThrottle == Tick \/ ThrottleCall

SpecThrottle == Init /\ [][NextThrottle]_vars

----------------------------------------------------------------------------
(* Channel selection and delivery of a create_notification call *)

RouterSourceIds == { None, "", "milk" }

RouterCall ==
    /\ ncalls < MaxCallsRouter
    /\ \E t \in NotificationTypes, sev \in NotificationSeverities,
          sid \in RouterSourceIds, raises \in SUBSET {PUSH, ALEXA} :
           CreateNotification("h1", t, sev, sid, raises)

NextRouter == RouterCall

SpecRouter == Init /\ [][NextRouter]_vars

----------------------------------------------------------------------------
(* app/agents/domus_orchestrator.py: routing of agent intents *)

\* _intent_to_event_type: mapping.get(intent_type, EventType.SYSTEM_ERROR)
IntentToEventType(intent_type) ==
    CASE intent_type = "detected_expiry" -> "intent.detected_expiry"
      [] intent_type = "expiry_warning" -> "intent.expiry_warning"
      [] intent_type = "require_procurement" -> "intent.require_procurement"
      [] intent_type = "inventory_updated" -> "inventory.updated"
      [] intent_type = "hardware_disconnected" -> "hardware.disconnected"
      [] intent_type = "item_added" -> "intent.item_added"
      [] intent_type = "item_removed" -> "intent.item_removed"
      [] intent_type = "item_moved" -> "intent.item_moved"
      [] intent_type = "consumption_likely" -> "intent.consumption_likely"
      [] intent_type = "calendar_event_ingredient_missing"
             -> "intent.calendar_ingredient_missing"
      [] OTHER -> "system.error"

\* notification_type_map.get(intent.intent_type)
NotificationTypeOfIntent(intent_type) ==
    CASE intent_type = "detected_expiry" -> PERISHABLE_EXPIRY
      [] intent_type = "expiry_warning" -> PERISHABLE_EXPIRY
      [] intent_type = "require_procurement" -> "procurement_required"
      [] intent_type = "hardware_disconnected" -> HARDWARE_DISCONNECTED
      [] OTHER -> None

\* _determine_severity
DetermineSeverity(intent_type) ==
    IF intent_type = "detected_expiry" THEN "high"
    ELSE IF intent_type = "expiry_warning" THEN "medium"
    ELSE IF intent_type = "hardware_disconnected" THEN "high"
    ELSE "low"

\* The list list(set(channels)) is when the process orders its channel
\* strings as rank does.
PickChannels(lists, rank) ==
    CHOOSE l \in lists :
        \A i, j \in DOMAIN l :
            i < j => \E a, b \in DOMAIN rank : a <= b /\ rank[a] = l[i] /\ rank[b] = l[j]

\* _create_notification_from_intent: create_notification is called without
\* source_type and source_id, which keep their default None.
CreateNotificationFromIntent(s, intent, rank, raises, t) ==
    LET notification_type == NotificationTypeOfIntent(intent.intent_type)
        severity == DetermineSeverity(intent.intent_type)
    IN  IF notification_type = None THEN s
        ELSE CreateNotificationFrom(
                 s, intent.household_id, notification_type, severity, None,
                 intent.payload,
                 PickChannels(DetermineChannels(severity, notification_type), rank),
                 raises, t)

\* The Event _route_intents publishes for an intent.
IntentEvent(event_id, intent) ==
    [event_id |-> event_id,
     event_type |-> IntentToEventType(intent.intent_type),
     payload |-> intent,
     source |-> "orchestrator",
     household_id |-> intent.household_id]

\* The intent types _route_intents hands to the notification service.
NotifyingIntentTypes ==
    { "detected_expiry", "expiry_warning", "require_procurement",
      "hardware_disconnected" }

RouteIntent_NotifiesFirst(s, intent, rank, raises, t) ==
    LET s1 == IF intent.intent_type \in NotifyingIntentTypes
              THEN CreateNotificationFromIntent(s, intent, rank, raises, t)
              ELSE s
    IN  [s1 EXCEPT !.queue = Append(@, IntentEvent(s1.nextId, intent)),
                   !.nextId = @ + 1]

\* One turn of the loop of _route_intents: the event of the intent, then its
\* notification.
RouteIntent(s, intent, rank, raises, t) ==
    LET s1 == [s EXCEPT !.queue = Append(@, IntentEvent(s.nextId, intent)),
                        !.nextId = @ + 1]
    IN  IF intent.intent_type \in NotifyingIntentTypes
        THEN CreateNotificationFromIntent(s1, intent, rank, raises, t)
        ELSE s1

\* The loop of _route_intents over the batch.
RECURSIVE RouteLoop(_, _, _, _, _)
RouteLoop(s, intents, rank, raises, t) ==
    IF intents = <<>> THEN s
    ELSE RouteLoop(RouteIntent(s, Head(intents), rank, raises, t),
                   Tail(intents), rank, raises, t)

\* What _route_intents does to the service, the bus and the record of routed
\* intents.
RouteBatch(intents, rank, raises) ==
    LET s == RouteLoop(ServiceState, intents, rank, raises, now)
    IN  /\ cache' = s.cache
        /\ delivered' = s.delivered
        /\ queue' = s.queue
        /\ nextId' = s.nextId
        /\ lastCall' = s.lastCall
        /\ ncalls' = ncalls + Len(s.delivered) - Len(delivered)
        /\ routed' = routed \o intents
        /\ UNCHANGED <<now, ticks>>
        /\ UNCHANGED busVars

\* DomusOrchestrator._route_intents
RouteIntents(intents, rank, raises) ==
    /\ RouteBatch(intents, rank, raises)
    /\ UNCHANGED obsVars
    /\ UNCHANGED <<callers, lock, history, appended, pending, l1_agents,
                   handling, requests, trace>>

----------------------------------------------------------------------------
(* Intents a fridge agent hands to the orchestrator *)

OrchHouseholds == { "h1", "h2" }
OrchIntentTypes == { "detected_expiry", "expiry_warning", "require_procurement",
                     "item_added" }
OrchItems == { "milk" }

\* An AgentIntent; the payload is the list of item names the finding is about.
AgentIntent(intent_type, household_id, item) ==
    [intent_type |-> intent_type,
     household_id |-> household_id,
     payload |-> <<item>>]

OrchIntents ==
    { AgentIntent(ty, h, x) : ty \in OrchIntentTypes, h \in OrchHouseholds,
                              x \in OrchItems }

OrchBatches ==
    UNION { [1..n -> OrchIntents] : n \in 1..MaxBatch }

OrchRoute ==
    \E intents \in OrchBatches, raises \in SUBSET {PUSH},
       rank \in Orderings({IN_APP, PUSH, ALEXA}) :
        /\ Len(queue) + Len(intents) <= MaxQueueOrch
        /\ RouteIntents(intents, rank, raises)

NextOrch == Tick \/ OrchRoute

SpecOrch == Init /\ [][NextOrch]_vars

----------------------------------------------------------------------------
(* Properties of the notification router *)

Last(s) == s[Len(s)]

Abs(x) == IF x < 0 THEN -x ELSE x

SetMax(S) == CHOOSE x \in S : \A y \in S : y <= x

\* A step that is one create_notification call.
IsCall == ncalls' = ncalls + 1

\* Times of the accepted expiry notifications of (household_id, source_id),
\* read off the delivered list.
AcceptedTimes(household_id, source_id) ==
    { delivered[i].created_at : i \in
        { k \in DOMAIN delivered :
            /\ delivered[k].notification_type = PERISHABLE_EXPIRY
            /\ delivered[k].household_id = household_id
            /\ delivered[k].source_id = source_id } }

\* C1: two expiry intents for the same household and the same item routed by
\* the orchestrator less than 86,400 s apart lead to at most one accepted
\* (delivered and recorded) Notification.
C1_RoutedExpiryAcceptedOncePerKey ==
    \A i, j \in DOMAIN delivered :
        ( /\ delivered[i].notification_type = PERISHABLE_EXPIRY
          /\ delivered[j].notification_type = PERISHABLE_EXPIRY
          /\ delivered[i].household_id = delivered[j].household_id
          /\ delivered[i].context = delivered[j].context
          /\ Abs(delivered[i].created_at - delivered[j].created_at)
                 < ExpiryThrottleSeconds )
        => i = j

\* C2: a perishable_expiry call with source id X made less than 86,400 s
\* after the last accepted call for the same (household_id, X) returns
\* "throttled" and adds no Notification record; a call made at or after
\* 86,400 s since the last accepted one adds exactly one Notification, whose
\* delivery_status is "delivered".
C2_ExpiryThrottleWindow ==
    [][ ( /\ IsCall
          /\ lastCall'.args.notification_type = PERISHABLE_EXPIRY
          /\ Truthy(lastCall'.args.source_id)
          /\ AcceptedTimes(lastCall'.args.household_id,
                           lastCall'.args.source_id) # {} )
        =>
        LET last == SetMax(AcceptedTimes(lastCall'.args.household_id,
                                         lastCall'.args.source_id))
        IN  IF now - last < 86400
            THEN /\ lastCall'.status = "throttled"
                 /\ delivered' = delivered
            ELSE /\ lastCall'.status = "delivered"
                 /\ Len(delivered') = Len(delivered) + 1
                 /\ SubSeq(delivered', 1, Len(delivered)) = delivered
                 /\ Last(delivered').delivery_status = "delivered"
                 /\ Last(delivered').household_id = lastCall'.args.household_id
                 /\ Last(delivered').source_id = lastCall'.args.source_id
      ]_vars

\* C2 witness: an expiry call was throttled and a later call for the same
\* key, exactly 86,400 s after the accepted one, was accepted.
C2_Witness ==
    /\ lastCall.status = "delivered"
    /\ lastCall.args.notification_type = PERISHABLE_EXPIRY
    /\ lastCall.args.source_id = "milk"
    /\ lastCall.args.time = 86400
    /\ \E i \in DOMAIN delivered :
          /\ delivered[i].created_at = 0
          /\ delivered[i].notification_type = PERISHABLE_EXPIRY
          /\ delivered[i].household_id = lastCall.args.household_id
          /\ delivered[i].source_id = "milk"
    /\ Len(delivered) = 2
    /\ ncalls = 3
    /\ nextId = 6

\* C3: a throttled call attempts no channel delivery, appends nothing to the
\* delivered list, publishes no event and leaves the throttle map unchanged.
C3_ThrottledDoesNothing ==
    [][ (IsCall /\ lastCall'.status = "throttled")
        => /\ lastCall'.calls = <<>>
           /\ lastCall'.channels = <<>>
           /\ delivered' = delivered
           /\ queue' = queue
           /\ cache' = cache
      ]_vars

\* C3 witness: the latest call was throttled, one second short of the window.
C3_Witness ==
    /\ lastCall.status = "throttled"
    /\ lastCall.args.time = 86399
    /\ Len(delivered) = 1

\* C4: a call that is not throttled returns a Notification with
\* delivery_status "delivered" and a non-empty channels_delivered, whichever
\* of the push and alexa channels raised; every delivered channel is listed
\* in channels_attempted.
C4_AcceptedIsDelivered ==
    /\ lastCall.status \notin {"none", "throttled"}
         => /\ delivered # <<>>
            /\ Last(delivered).id = lastCall.notification_id
            /\ lastCall.status = "delivered"
    /\ \A i \in DOMAIN delivered :
          /\ delivered[i].delivery_status = "delivered"
          /\ delivered[i].channels_delivered # <<>>
          /\ Range(delivered[i].channels_delivered)
                 \subseteq Range(delivered[i].channels_attempted)

\* C4 witness: an urgent notification whose push and alexa deliveries both
\* raised.
C4_Witness ==
    /\ lastCall.status = "delivered"
    /\ lastCall.args.severity = "urgent"
    /\ lastCall.args.raises = {PUSH, ALEXA}
    /\ Last(delivered).channels_delivered = <<IN_APP>>
    /\ Len(Last(delivered).channels_attempted) = 3

\* C5: when the delivery call of a selected channel raises, that channel's
\* delivery is called exactly once more; a channel whose call does not raise
\* is called once.
C5_RaisingChannelRetriedOnce ==
    lastCall.status \notin {"none", "throttled"}
    => \A c \in Range(lastCall.channels) :
           Count(lastCall.calls, c) =
               IF Deliver(c, lastCall.args.raises) = "raise" THEN 2 ELSE 1

\* C6: the selected channels are in_app always, push iff the severity is
\* high or urgent or the type is hardware_disconnected, alexa iff the
\* severity is urgent; none is selected twice and email never is.
C6_ChannelSelection ==
    lastCall.status \notin {"none", "throttled"}
    => LET sel == lastCall.channels
           sev == lastCall.args.severity
           ty == lastCall.args.notification_type
       IN  /\ Count(sel, "in_app") = 1
           /\ Count(sel, "push") =
                 IF sev = "high" \/ sev = "urgent" \/ ty = "hardware_disconnected"
                 THEN 1 ELSE 0
           /\ Count(sel, "alexa") = IF sev = "urgent" THEN 1 ELSE 0
           /\ Count(sel, "email") = 0
           /\ Len(sel) = Count(sel, "in_app") + Count(sel, "push")
                             + Count(sel, "alexa")

\* C6 witness: a high-severity hardware_disconnected notification, for which
\* both push rules apply.
C6_Witness ==
    /\ lastCall.status = "delivered"
    /\ lastCall.args.severity = "high"
    /\ lastCall.args.notification_type = HARDWARE_DISCONNECTED
    /\ Count(lastCall.channels, PUSH) = 1

\* C7: an accepted call enqueues exactly one notification.created event,
\* whose payload is the notification record as it stands after
\* channels_delivered and delivery_status were set; a throttled call
\* enqueues none.
C7_OneCreatedEventPerAccepted ==
    [][ IsCall
        => IF lastCall'.status = "throttled"
           THEN queue' = queue
           ELSE /\ Len(queue') = Len(queue) + 1
                /\ SubSeq(queue', 1, Len(queue)) = queue
                /\ Last(queue').event_type = "notification.created"
                /\ Last(queue').payload = Last(delivered')
                /\ Last(queue').payload.id = lastCall'.notification_id
                /\ Last(queue').payload.delivery_status = "delivered"
                /\ Last(queue').payload.channels_delivered # <<>>
      ]_vars

\* C7 witness: three calls, of which one was throttled, left two events.
C7_Witness ==
    /\ ncalls = 3
    /\ Len(queue) = 2
    /\ lastCall.status = "throttled"
    /\ \A i \in DOMAIN queue : queue[i].event_type = NOTIFICATION_CREATED

----------------------------------------------------------------------------
(* app/core/event_bus.py *)

Handlers == { "hA", "hB" }

Min(a, b) == IF a <= b THEN a ELSE b

\* An Event published with an explicit event_id and an empty payload dict.
BusEvent(event_id, event_type) ==
    [event_id |-> event_id,
     event_type |-> event_type,
     payload |-> << >>,
     source |-> "system",
     household_id |-> None]

\* The duplicate check left out.
IsDuplicate_Never(ids, event_id) == FALSE

\* `event.event_id in self._processed_events`
IsDuplicate(ids, event_id) == event_id \in ids

\* set(list(ids)[-5000:]): the last TrimKeep elements in the iteration order
\* of the set, which for a set of uuid strings is the order of their hash
\* slots and bears no relation to insertion order.
TrimResults(ids) ==
    { kept \in SUBSET ids : Cardinality(kept) = Min(TrimKeep, Cardinality(ids)) }

\* The id not recorded by the time the handlers are called.
AddProcessed_NotBeforeHandlers(ids, event_id) == { ids }

\* Lines 165-170: the sets _processed_events can be after the id is added.
AddProcessed(ids, event_id) ==
    IF Cardinality(ids \cup {event_id}) > MaxProcessedCache
    THEN TrimResults(ids \cup {event_id})
    ELSE { ids \cup {event_id} }

\* The wildcard handlers put before the handlers of the type.
HandlersFor_WildcardFirst(subs, all_subs, event_type) ==
    all_subs \o (IF event_type \in DOMAIN subs THEN subs[event_type] ELSE << >>)

\* Line 172: handlers of the type followed by the wildcard handlers.
HandlersFor(subs, all_subs, event_type) ==
    (IF event_type \in DOMAIN subs THEN subs[event_type] ELSE << >>) \o all_subs

\* The progress of one _dispatch_event call through `for handler in handlers`:
\* i is the position of the handler being called, calls[k] the number of
\* times handlers[k] was called, first[k] and retry[k] how its first call and
\* its retry ended.
NoDispatch ==
    [event_id |-> 0, event_type |-> None, handlers |-> << >>, i |-> 1,
     calls |-> << >>, first |-> << >>, retry |-> << >>]

\* Entering the loop calls the first handler.
NewDispatch(event, handlers) ==
    [event_id |-> event.event_id,
     event_type |-> event.event_type,
     handlers |-> handlers,
     i |-> 1,
     calls |-> [k \in 1..Len(handlers) |-> IF k = 1 THEN 1 ELSE 0],
     first |-> [k \in 1..Len(handlers) |-> "none"],
     retry |-> [k \in 1..Len(handlers) |-> "none"]]

\* The loop moves to the next handler and calls it.
NextHandler(d) ==
    LET j == d.i + 1
    IN  [d EXCEPT !.i = j,
                  !.calls = IF j <= Len(d.handlers) THEN [@ EXCEPT ![j] = 1] ELSE @]

DispatchDone(d) == d.i > Len(d.handlers)

\* The first call of handlers[i] ended without an Exception.
AfterFirstOk(d) == NextHandler([d EXCEPT !.first[d.i] = "ok"])

\* The failure of the first call logged and dropped without a retry.
AfterFirstRaise_NoRetry(d) == NextHandler([d EXCEPT !.first[d.i] = "raise"])

\* Lines 179-185: the first call raised an Exception, the handler is called
\* again.
AfterFirstRaise(d) ==
    [d EXCEPT !.first[d.i] = "raise", !.calls[d.i] = @ + 1]

\* A failed retry leaving the loop over the handlers.
AfterRetry_AbortsDispatch(d, outcome) ==
    IF outcome = "raise"
    THEN [d EXCEPT !.retry[d.i] = outcome, !.i = Len(d.handlers) + 1]
    ELSE NextHandler([d EXCEPT !.retry[d.i] = outcome])

\* Lines 186-187: the retry ended, with or without an Exception.
AfterRetry(d, outcome) == NextHandler([d EXCEPT !.retry[d.i] = outcome])

\* The loop of _process_events ending after one event.
LoopTop_Once(is_running) == "done"

\* `while self._running` at the top of the loop of _process_events.
LoopTop(is_running) == IF is_running THEN "wait" ELSE "done"

NewTask == [pc |-> "wait", cancel |-> FALSE, d |-> NoDispatch]

Alive(k) == k \in DOMAIN tasks /\ tasks[k].pc # "done"

UnchangedNotif ==
    UNCHANGED <<now, ticks, cache, delivered, nextId, ncalls, lastCall, accepted,
                agentVars>>

\* EventBus.start
Start ==
    /\ ~running
    /\ running' = TRUE
    /\ tasks' = Append(tasks, NewTask)
    /\ worker_task' = Len(tasks) + 1
    /\ UNCHANGED <<subscribers, all_subscribers, processed, dispatchLog, npub, queue>>
    /\ UnchangedNotif
    /\ UNCHANGED <<opResult, unsubscribed>>

\* EventBus.stop: clears the flag and requests the cancellation of the
\* worker task; the task sees the CancelledError at the await it is
\* suspended in.
Stop ==
    /\ running \/ Alive(worker_task)
    /\ running' = FALSE
    /\ tasks' = IF Alive(worker_task)
                THEN [tasks EXCEPT ![worker_task].cancel = TRUE]
                ELSE tasks
    /\ UNCHANGED <<subscribers, all_subscribers, processed, worker_task,
                   dispatchLog, npub, queue>>
    /\ UnchangedNotif
    /\ UNCHANGED <<opResult, unsubscribed>>

NumSubs ==
    Len(all_subscribers)
    + Len(subscribers["inventory.updated"]) + Len(subscribers[NOTIFICATION_CREATED])

\* EventBus.subscribe
Subscribe(event_type, handler) ==
    /\ subscribers' = [subscribers EXCEPT ![event_type] = Append(@, handler)]
    /\ unsubscribed' = unsubscribed \ { <<event_type, handler>> }
    /\ UNCHANGED <<all_subscribers, running, processed, tasks, worker_task,
                   dispatchLog, npub, queue>>
    /\ UnchangedNotif
    /\ UNCHANGED opResult

\* EventBus.subscribe_all
SubscribeAll(handler) ==
    /\ all_subscribers' = Append(all_subscribers, handler)
    /\ UNCHANGED <<subscribers, running, processed, tasks, worker_task,
                   dispatchLog, npub, queue>>
    /\ UnchangedNotif
    /\ UNCHANGED <<opResult, unsubscribed>>

\* The first occurrence of the handler removed, as list.remove does.
RECURSIVE Without_FirstOnly(_, _)
Without_FirstOnly(hs, handler) ==
    IF hs = << >> THEN << >>
    ELSE IF Head(hs) = handler THEN Tail(hs)
    ELSE <<Head(hs)>> \o Without_FirstOnly(Tail(hs), handler)

\* [h for h in self._subscribers[event_type] if h != handler]
RECURSIVE Without(_, _)
Without(hs, handler) ==
    IF hs = << >> THEN << >>
    ELSE IF Head(hs) = handler THEN Without(Tail(hs), handler)
    ELSE <<Head(hs)>> \o Without(Tail(hs), handler)

\* EventBus.unsubscribe
Unsubscribe(event_type, handler) ==
    /\ handler \in Range(subscribers[event_type])
    /\ subscribers' = [subscribers EXCEPT ![event_type] = Without(@, handler)]
    /\ unsubscribed' = unsubscribed \cup { <<event_type, handler>> }
    /\ UNCHANGED <<all_subscribers, running, processed, tasks, worker_task,
                   dispatchLog, npub, queue>>
    /\ UnchangedNotif
    /\ UNCHANGED opResult

\* The fields of the Event dataclass the model keeps.
EventFields == { "event_id", "event_type", "payload", "source", "household_id" }

\* isinstance(value, Event).  A value that is not an Event is a record with
\* a cls field naming its class.
IsEventInstance_Any(value) == TRUE

IsEventInstance(value) == DOMAIN value = EventFields

\* publish putting the event at the head of the queue.
Publish_PutsFirst(event) ==
    /\ queue' = IF IsEventInstance(event) THEN <<event>> \o queue ELSE queue
    /\ opResult' = [op |-> "publish",
                    raised |-> IF IsEventInstance(event) THEN None ELSE "TypeError"]
    /\ npub' = npub + 1
    /\ UNCHANGED <<subscribers, all_subscribers, running, processed, tasks,
                   worker_task, dispatchLog>>
    /\ UnchangedNotif
    /\ UNCHANGED unsubscribed

\* EventBus.publish: a value that is not an Event raises TypeError before
\* the queue is touched.
Publish(event) ==
    /\ queue' = IF IsEventInstance(event) THEN Append(queue, event) ELSE queue
    /\ opResult' = [op |-> "publish",
                    raised |-> IF IsEventInstance(event) THEN None ELSE "TypeError"]
    /\ npub' = npub + 1
    /\ UNCHANGED <<subscribers, all_subscribers, running, processed, tasks,
                   worker_task, dispatchLog>>
    /\ UnchangedNotif
    /\ UNCHANGED unsubscribed

\* dispatchLog after a dispatch of event_id that passed the duplicate check,
\* called the given handlers and did or did not trim the cache: n counts
\* these dispatches, ever holds their ids, sinceTrim the ids dispatched with
\* no trim during or after their dispatch, invoked the ids for which a
\* handler was called, reinvoked those for which that happened again.
Logged(log, event_id, handlers, trimmed) ==
    [n |-> log.n + 1,
     ever |-> log.ever \cup {event_id},
     sinceTrim |-> IF trimmed THEN {} ELSE log.sinceTrim \cup {event_id},
     invoked |-> IF handlers # << >> THEN log.invoked \cup {event_id}
                 ELSE log.invoked,
     reinvoked |-> IF handlers # << >> /\ event_id \in log.invoked
                   THEN log.reinvoked \cup {event_id} ELSE log.reinvoked,
     last_id |-> event_id,
     last_trimmed |-> trimmed]

\* _process_events takes the next event off the queue and _dispatch_event
\* runs up to the call of the first handler.
Dequeue(k) ==
    /\ Alive(k)
    /\ tasks[k].pc = "wait"
    /\ ~tasks[k].cancel
    /\ queue # << >>
    /\ queue' = Tail(queue)
    /\ LET event == Head(queue)
       IN  IF IsDuplicate(processed, event.event_id)
           THEN /\ tasks' = [tasks EXCEPT ![k].pc = LoopTop(running)]
                /\ UNCHANGED <<processed, dispatchLog>>
           ELSE /\ processed' \in AddProcessed(processed, event.event_id)
                /\ LET handlers == HandlersFor(subscribers, all_subscribers,
                                               event.event_type)
                       d == NewDispatch(event, handlers)
                   IN  /\ tasks' = [tasks EXCEPT
                                      ![k].d = d,
                                      ![k].pc = IF DispatchDone(d)
                                                THEN LoopTop(running) ELSE "call"]
                       /\ dispatchLog' = Logged(dispatchLog, event.event_id, handlers,
                              Cardinality(processed \cup {event.event_id})
                                  > MaxProcessedCache)
    /\ UNCHANGED <<subscribers, all_subscribers, running, worker_task, npub>>
    /\ UnchangedNotif
    /\ UNCHANGED <<opResult, unsubscribed>>

\* The task leaves the loop: CancelledError at wait_for, or the timeout of
\* wait_for followed by a false `while self._running`.
WorkerExit(k) ==
    /\ Alive(k)
    /\ tasks[k].pc = "wait"
    /\ tasks[k].cancel \/ ~running
    /\ tasks' = [tasks EXCEPT ![k].pc = "done", ![k].cancel = FALSE]
    /\ UNCHANGED <<subscribers, all_subscribers, running, processed,
                   worker_task, dispatchLog, npub, queue>>
    /\ UnchangedNotif
    /\ UNCHANGED <<opResult, unsubscribed>>

\* A failed retry leaving _dispatch_event and ending _process_events.
Continue_RetryFailureEndsLoop(task, d, is_running) ==
    [task EXCEPT !.d = d,
                 !.cancel = FALSE,
                 !.pc = IF d.i > 1 /\ d.retry[d.i - 1] = "raise" THEN "done"
                        ELSE IF DispatchDone(d) THEN LoopTop(is_running)
                        ELSE IF d.first[d.i] = "raise" THEN "retry" ELSE "call"]

\* The state of the task once the dispatch record became d.
Continue(task, d, is_running) ==
    [task EXCEPT !.d = d,
                 !.cancel = FALSE,
                 !.pc = IF DispatchDone(d) THEN LoopTop(is_running)
                        ELSE IF d.first[d.i] = "raise" THEN "retry" ELSE "call"]

\* The handler call in progress ends.  outcome is "ok", "raise" (an
\* Exception) or "cancelled": the CancelledError of stop() left the handler,
\* passes `except Exception` and ends the task at `except CancelledError`.
\* A handler can also absorb the CancelledError and end in "ok" or "raise".
HandlerReturns(k, outcome) ==
    /\ Alive(k)
    /\ tasks[k].pc \in {"call", "retry"}
    /\ outcome = "cancelled" => tasks[k].cancel
    /\ LET task == tasks[k]
           d == task.d
       IN  tasks' = [tasks EXCEPT ![k] =
               IF outcome = "cancelled"
               THEN [task EXCEPT !.pc = "done", !.cancel = FALSE,
                                 !.d = IF task.pc = "call"
                                       THEN [d EXCEPT !.first[d.i] = "cancelled"]
                                       ELSE [d EXCEPT !.retry[d.i] = "cancelled"]]
               ELSE IF task.pc = "retry"
               THEN Continue(task, AfterRetry(d, outcome), running)
               ELSE IF outcome = "ok"
               THEN Continue(task, AfterFirstOk(d), running)
               ELSE Continue(task, AfterFirstRaise(d), running)]
    /\ UNCHANGED <<subscribers, all_subscribers, running, processed,
                   worker_task, dispatchLog, npub, queue>>
    /\ UnchangedNotif
    /\ UNCHANGED <<opResult, unsubscribed>>

----------------------------------------------------------------------------
(* The bus with subscriptions, start, stop and a publisher *)

BusEvents ==
    { BusEvent(id, "inventory.updated") : id \in 1..MaxEventIdsBus }

NextBus ==
    \/ Len(tasks) < MaxTasks /\ Start
    \/ Stop
    \/ NumSubs < MaxSubs /\ \E h \in Handlers : Subscribe("inventory.updated", h)
    \/ NumSubs < MaxSubs /\ \E h \in Handlers : SubscribeAll(h)
    \/ npub < MaxPublishBus /\ \E e \in BusEvents : Publish(e)
    \/ \E k \in DOMAIN tasks : Dequeue(k)
    \/ \E k \in DOMAIN tasks : WorkerExit(k)
    \/ \E k \in DOMAIN tasks, o \in {"ok", "raise", "cancelled"} : HandlerReturns(k, o)

SpecBus == Init /\ [][NextBus]_vars

----------------------------------------------------------------------------
(* The duplicate check of a running bus with one wildcard subscriber *)

DedupEvents ==
    { BusEvent(id, "inventory.updated") : id \in 1..(MaxProcessedCache + 1) }

NextDedup ==
    \/ Len(tasks) < 1 /\ Start
    \/ NumSubs < 1 /\ SubscribeAll("hA")
    \/ npub < MaxPublishDedup /\ \E e \in DedupEvents : Publish(e)
    \/ \E k \in DOMAIN tasks : Dequeue(k)
    \/ \E k \in DOMAIN tasks, o \in {"ok", "raise"} : HandlerReturns(k, o)

SpecDedup == Init /\ [][NextDedup]_vars

----------------------------------------------------------------------------
(* Properties of the event bus *)

\* A step in which a task takes an event off the queue.
IsDequeue == Len(queue') < Len(queue)

\* C8 as stated: events sharing one event_id cause one set of handler
\* invocations, however many other events were dispatched in between: no id
\* has handlers called for it in two dispatches.
C8_OneInvocationSetPerEventId == dispatchLog.reinvoked = {}

\* C8 amended: the first event dequeued with an id is dispatched, and a later
\* event with that id is skipped without calling any handler as long as the
\* processed-id cache was not trimmed during or after that dispatch.
C8_OneDispatchWhileCached ==
    [][ IsDequeue =>
        LET id == Head(queue).event_id
        IN  /\ id \notin dispatchLog.ever
                 => /\ dispatchLog'.n = dispatchLog.n + 1
                    /\ dispatchLog'.last_id = id
                    /\ \E k \in DOMAIN tasks' :
                          /\ tasks'[k].d.event_id = id
                          /\ tasks'[k].d.handlers # << >> => tasks'[k].d.calls[1] = 1
            /\ id \in dispatchLog.sinceTrim
                 => /\ dispatchLog' = dispatchLog
                    /\ processed' = processed
                    /\ \A k \in DOMAIN tasks : tasks'[k].d = tasks[k].d
      ]_vars

\* C8 witness: three events were dequeued, two ids were dispatched to the
\* subscriber and the third event, a duplicate, was skipped.
C8_Witness ==
    /\ npub = 3
    /\ queue = << >>
    /\ dispatchLog.n = 2
    /\ dispatchLog.invoked = {1, 2}
    /\ dispatchLog.reinvoked = {}
    /\ processed = {1, 2}

\* C9: when adding an id makes the cache exceed its capacity, the cache is
\* cut to the trim target and the id just dispatched is among the ids kept.
C9_TrimKeepsJustDispatchedId ==
    dispatchLog.last_trimmed
    => /\ Cardinality(processed) = TrimKeep
       /\ dispatchLog.last_id \in processed

\* C10: within one dispatch, a handler whose first call returned normally
\* was called once, a handler whose first call raised was called exactly
\* twice, and no handler is called a third time.
C10_HandlerCalledOnceOrTwice ==
    \A k \in DOMAIN tasks :
        LET d == tasks[k].d
        IN  \A j \in DOMAIN d.handlers :
                /\ d.calls[j] <= 2
                /\ d.first[j] = "ok" => d.calls[j] = 1
                /\ d.first[j] = "raise" => d.calls[j] = 2
                /\ d.retry[j] # "none" => d.first[j] = "raise"

\* C10 witness: a finished dispatch to two handlers, the first of which
\* raised on its first call and on its retry, the second of which returned.
C10_Witness ==
    \E k \in DOMAIN tasks :
        LET d == tasks[k].d
        IN  /\ Len(d.handlers) = 2
            /\ DispatchDone(d)
            /\ d.first[1] = "raise" /\ d.retry[1] = "raise" /\ d.calls[1] = 2
            /\ d.first[2] = "ok" /\ d.calls[2] = 1

----------------------------------------------------------------------------
(* Direct calls of the debounce manager *)

\* The value get_time_until_allowed returns: None, or the seconds remaining.
NoWait == [is_none |-> TRUE, seconds |-> 0]

\* get_time_until_allowed returning 0.0 when no time remains.
GetTimeUntilAllowed_ZeroRemaining(c, key, debounce_seconds, t) ==
    IF key \notin DOMAIN c
    THEN [value |-> NoWait, cache |-> c]
    ELSE LET remaining == debounce_seconds - (t - c[key])
         IN  [value |-> IF remaining >= 0
                        THEN [is_none |-> FALSE, seconds |-> remaining]
                        ELSE NoWait,
              cache |-> c]

\* DebounceManager.get_time_until_allowed: the value returned and the cache
\* it leaves.
GetTimeUntilAllowed(c, key, debounce_seconds, t) ==
    IF key \notin DOMAIN c
    THEN [value |-> NoWait, cache |-> c]
    ELSE LET remaining == debounce_seconds - (t - c[key])
         IN  [value |-> IF remaining > 0
                        THEN [is_none |-> FALSE, seconds |-> remaining]
                        ELSE NoWait,
              cache |-> c]

\* `del self._cache[key]`
Reset(c, key) == [k \in DOMAIN c \ {key} |-> c[k]]

UnchangedBus == UNCHANGED <<busVars, queue, unsubscribed>>

UnchangedService == UNCHANGED <<delivered, nextId, ncalls, lastCall, agentVars>>

\* A call of debounce_manager.should_accept(key, debounce_seconds)
ShouldAcceptCall(key, debounce_seconds) ==
    LET r == ShouldAccept(cache, key, debounce_seconds, now)
        prior == IF key \in DOMAIN accepted THEN accepted[key] ELSE << >>
    IN  /\ cache' = r.cache
        /\ opResult' = [op |-> "should_accept", key |-> key,
                        debounce_seconds |-> debounce_seconds, value |-> r.accepted]
        /\ accepted' = IF r.accepted
                       THEN [k \in DOMAIN accepted \cup {key} |->
                               IF k = key THEN Append(prior, now) ELSE accepted[k]]
                       ELSE accepted
        /\ UNCHANGED <<now, ticks>>
        /\ UnchangedService
        /\ UnchangedBus

\* A call of debounce_manager.get_time_until_allowed(key, debounce_seconds)
GetTimeUntilAllowedCall(key, debounce_seconds) ==
    LET r == GetTimeUntilAllowed(cache, key, debounce_seconds, now)
    IN  /\ cache' = r.cache
        /\ opResult' = [op |-> "get_time_until_allowed", key |-> key,
                        debounce_seconds |-> debounce_seconds, value |-> r.value]
        /\ UNCHANGED <<now, ticks, accepted>>
        /\ UnchangedService
        /\ UnchangedBus

\* A call of debounce_manager.reset(key)
ResetCall(key) ==
    /\ key \in DOMAIN cache
    /\ cache' = Reset(cache, key)
    /\ accepted' = Reset(accepted, key)
    /\ opResult' = [op |-> "reset", key |-> key]
    /\ UNCHANGED <<now, ticks>>
    /\ UnchangedService
    /\ UnchangedBus

\* The keys of the two convenience functions, and two intervals: one second
\* and the expiry throttle interval.
DebounceKeys == { "iot_image:h1", ExpiryKey("h1", "milk") }
DebounceIntervals == { 1, ExpiryThrottleSeconds }

NextDebounce ==
    \/ Tick
    \/ \E key \in DebounceKeys, I \in DebounceIntervals : ShouldAcceptCall(key, I)
    \/ \E key \in DebounceKeys, I \in DebounceIntervals : GetTimeUntilAllowedCall(key, I)
    \/ \E key \in DebounceKeys : ResetCall(key)

SpecDebounce == Init /\ [][NextDebounce]_vars

----------------------------------------------------------------------------
(* Properties of the debounce manager *)

\* A step that is a call of the named operation of the debounce manager.
IsDebounceCall(op) ==
    /\ opResult'.op = op
    /\ opResult' # opResult \/ cache' # cache \/ accepted' # accepted

\* C19: a should_accept(key, I) call returns true and records its own time
\* exactly when no call for the key was accepted since the last reset or the
\* last accepted call is at least I in the past; otherwise it returns false
\* and leaves the recorded times unchanged.
C19_ShouldAcceptInterval ==
    [][ IsDebounceCall("should_accept") =>
        LET key == opResult'.key
            I == opResult'.debounce_seconds
            prior == IF key \in DOMAIN accepted THEN accepted[key] ELSE << >>
            due == prior = << >> \/ now - Last(prior) >= I
        IN  /\ opResult'.value = due
            /\ due => /\ key \in DOMAIN cache' /\ cache'[key] = now
                      /\ \A k \in DOMAIN cache \ {key} :
                            k \in DOMAIN cache' /\ cache'[k] = cache[k]
                      /\ DOMAIN cache' = DOMAIN cache \cup {key}
            /\ ~due => cache' = cache
      ]_vars

\* C19 witness: a call is rejected for a key that had two calls accepted,
\* the second exactly the interval after the first.
C19_Witness ==
    /\ opResult.op = "should_accept"
    /\ opResult.value = FALSE
    /\ opResult.debounce_seconds = ExpiryThrottleSeconds
    /\ opResult.key \in DOMAIN accepted
    /\ accepted[opResult.key] = <<0, ExpiryThrottleSeconds>>
    /\ cache[opResult.key] = ExpiryThrottleSeconds

\* C20: get_time_until_allowed(key, I) leaves the recorded times unchanged,
\* returns None exactly when should_accept(key, I) would return true at that
\* instant, and otherwise the positive time I - elapsed.
C20_TimeUntilAllowed ==
    [][ IsDebounceCall("get_time_until_allowed") =>
        LET key == opResult'.key
            I == opResult'.debounce_seconds
            v == opResult'.value
        IN  /\ cache' = cache
            /\ v.is_none <=> ShouldAccept(cache, key, I, now).accepted
            /\ ~v.is_none => /\ v.seconds > 0
                             /\ v.seconds = I - (now - cache[key])
      ]_vars

\* C20 witness: the query answers None at the instant the interval has just
\* elapsed for a key with a recorded time.
C20_Witness ==
    /\ opResult.op = "get_time_until_allowed"
    /\ opResult.value.is_none
    /\ opResult.key \in DOMAIN cache
    /\ now - cache[opResult.key] = opResult.debounce_seconds
    /\ opResult.debounce_seconds = ExpiryThrottleSeconds

----------------------------------------------------------------------------
(* Order of dispatch: each registration adds a new handler, named by the
   number of the registration, and each publish a new event, whose id is
   the number of the publish.  Handlers let the CancelledError of stop()
   propagate. *)

NextOrder ==
    \/ Len(tasks) < MaxTasksOrder /\ Start
    \/ Stop
    \/ NumSubs < MaxSubsOrder /\ Subscribe("inventory.updated", NumSubs + 1)
    \/ NumSubs < MaxSubsOrder /\ SubscribeAll(NumSubs + 1)
    \/ npub < MaxPublishOrder /\ Publish(BusEvent(npub + 1, "inventory.updated"))
    \/ \E k \in DOMAIN tasks : Dequeue(k)
    \/ \E k \in DOMAIN tasks : WorkerExit(k)
    \/ \E k \in DOMAIN tasks, o \in {"ok", "raise", "cancelled"} :
          /\ tasks[k].cancel => o = "cancelled"
          /\ HandlerReturns(k, o)

SpecOrder == Init /\ [][NextOrder]_vars

\* The step calls a handler in task k: a new dispatch reached its first
\* handler, or a handler call ended and the loop called the same handler
\* again or the next one.
Invokes(k) ==
    /\ tasks'[k].d # tasks[k].d
    /\ tasks'[k].pc \in {"call", "retry"}

\* The step ends the dispatch task k was in, all its handler calls having
\* ended in a return or an Exception.
EndsDispatch(k) ==
    /\ tasks[k].pc \in {"call", "retry"}
    /\ tasks'[k].pc \in {"wait", "done"}
    /\ \A j \in DOMAIN tasks'[k].d.handlers :
          tasks'[k].d.first[j] # "cancelled" /\ tasks'[k].d.retry[j] # "cancelled"

\* C11: a dispatch takes the handlers subscribed to the event's type and the
\* wildcard handlers, and when it ends each of them was called at least
\* once, whatever the calls of the handlers before it raised.
C11_EveryHandlerInvoked ==
    [][ /\ dispatchLog'.n = dispatchLog.n + 1
           => \E k \in DOMAIN tasks :
                 /\ tasks'[k].d.event_id = dispatchLog'.last_id
                 /\ tasks'[k].d.handlers =
                        subscribers[tasks'[k].d.event_type] \o all_subscribers
        /\ \A k \in DOMAIN tasks :
              EndsDispatch(k) =>
                  \A j \in DOMAIN tasks'[k].d.handlers : tasks'[k].d.calls[j] >= 1
      ]_vars

\* C11 witness: the handler subscribed to the type raised on its first call
\* and on its retry, and the wildcard handler after it is being called.
C11_Witness ==
    \E k \in DOMAIN tasks :
        LET d == tasks[k].d
        IN  /\ tasks[k].pc = "call"
            /\ Len(d.handlers) = 2 /\ d.i = 2
            /\ d.handlers[1] \in Range(subscribers["inventory.updated"])
            /\ d.handlers[2] \in Range(all_subscribers)
            /\ d.first[1] = "raise" /\ d.retry[1] = "raise"
            /\ d.calls[2] = 1

\* C13: events are dispatched in publish order: when a handler is called for
\* an event, no event published after it has been dispatched yet.
C13_DispatchInPublishOrder ==
    [][ \A k \in DOMAIN tasks :
            Invokes(k) =>
                \A id \in dispatchLog'.ever : id <= tasks'[k].d.event_id
      ]_vars

\* C13 witness: the handler was called and retried for the first event
\* published and is now being retried for the second.
C13_Witness ==
    /\ dispatchLog.invoked = {1, 2}
    /\ \E k \in DOMAIN tasks :
          /\ tasks[k].pc = "retry"
          /\ tasks[k].d.event_id = 2

\* C14 as stated: a handler registered before another, through subscribe or
\* through subscribe_all, has its first call for an event before the other.
C14_RegistrationOrder ==
    \A k \in DOMAIN tasks :
        LET d == tasks[k].d
        IN  \A i, j \in DOMAIN d.handlers :
                d.handlers[i] < d.handlers[j] /\ d.calls[j] >= 1 => d.calls[i] >= 1

\* Handler a comes before handler b in the order of the two subscriber
\* lists: both in one list and a registered first, or a subscribed to the
\* type and b a wildcard handler.
ListedBefore(a, b) ==
    LET typed == Range(subscribers["inventory.updated"])
    IN  \/ a \in typed /\ b \notin typed
        \/ (a \in typed <=> b \in typed) /\ a < b

\* C14 amended: the handlers subscribed to the event's type have their first
\* calls in the order of their registration, and after them the wildcard
\* handlers in the order of theirs.
C14_TypedThenWildcardOrder ==
    \A k \in DOMAIN tasks :
        LET d == tasks[k].d
        IN  \A i, j \in DOMAIN d.handlers :
                ListedBefore(d.handlers[i], d.handlers[j]) /\ d.calls[j] >= 1
                    => d.calls[i] >= 1

\* C14 witness: the wildcard handler was registered first, the handler of
\* the type second, and the dispatch called the handler of the type first.
C14_Witness ==
    /\ all_subscribers = <<1>>
    /\ subscribers["inventory.updated"] = <<2>>
    /\ \E k \in DOMAIN tasks :
          /\ tasks[k].d.handlers = <<2, 1>>
          /\ tasks[k].d.calls = <<1, 1>>

----------------------------------------------------------------------------
(* stop() *)

\* stop() has returned: the flag is cleared and the task it cancelled ended.
Stopped == ~running /\ ~Alive(worker_task) /\ worker_task # 0

\* C18: a task that stop() ends while it is in a dispatch leaves the queue
\* alone and has called every handler of that dispatch, and once stop() has
\* returned no event is taken off the queue.
C18_StopCompletesDispatchInProgress ==
    [][ /\ \A k \in DOMAIN tasks :
              tasks[k].pc \in {"call", "retry"} /\ tasks'[k].pc = "done"
                  => /\ queue' = queue
                     /\ \A j \in DOMAIN tasks'[k].d.handlers :
                           tasks'[k].d.calls[j] >= 1
        /\ Stopped /\ Stopped' => ~IsDequeue
      ]_vars

----------------------------------------------------------------------------
(* unsubscribe() on a running bus *)

NextUnsub ==
    \/ Len(tasks) < 1 /\ Start
    \/ NumSubs < MaxSubsUnsub
          /\ \E ty \in BusEventTypes, h \in Handlers : Subscribe(ty, h)
    \/ NumSubs < MaxSubsUnsub /\ \E h \in Handlers : SubscribeAll(h)
    \/ \E ty \in BusEventTypes, h \in Handlers : Unsubscribe(ty, h)
    \/ npub < MaxPublishUnsub
          /\ \E ty \in BusEventTypes : Publish(BusEvent(npub + 1, ty))
    \/ \E k \in DOMAIN tasks : Dequeue(k)
    \/ \E k \in DOMAIN tasks : HandlerReturns(k, "ok")

SpecUnsub == Init /\ [][NextUnsub]_vars

\* A step in which unsubscribe removed a handler.
IsUnsubscribe ==
    \E ty \in BusEventTypes : Len(subscribers'[ty]) < Len(subscribers[ty])

\* A step that starts a dispatch, and the task it starts in.
StartsDispatch(k) ==
    /\ dispatchLog'.n = dispatchLog.n + 1
    /\ tasks'[k].d # tasks[k].d

\* C16 as stated: a dispatch that starts after unsubscribe(type, h) for an
\* event of that type does not call h, and unsubscribe leaves a dispatch in
\* progress as it is.
C16_UnsubscribedNeverInvoked ==
    [][ /\ \A k \in DOMAIN tasks :
              StartsDispatch(k) =>
                  \A h \in Handlers :
                      <<tasks'[k].d.event_type, h>> \in unsubscribed
                          => h \notin Range(tasks'[k].d.handlers)
        /\ IsUnsubscribe => tasks' = tasks
      ]_vars

\* C16 amended: a dispatch that starts after unsubscribe(type, h) for an
\* event of that type calls h only as a wildcard handler, once for each time
\* it is registered through subscribe_all; unsubscribe leaves a dispatch in
\* progress as it is, and that dispatch ends having called each of its
\* handlers.
C16_UnsubscribedInvokedOnlyAsWildcard ==
    [][ /\ \A k \in DOMAIN tasks :
              /\ StartsDispatch(k) =>
                    \A h \in Handlers :
                        <<tasks'[k].d.event_type, h>> \in unsubscribed
                            => Count(tasks'[k].d.handlers, h)
                                   = Count(all_subscribers, h)
              /\ EndsDispatch(k) =>
                    \A j \in DOMAIN tasks'[k].d.handlers :
                        tasks'[k].d.calls[j] >= 1
        /\ IsUnsubscribe => tasks' = tasks
      ]_vars

\* C16 witness: hA was unsubscribed from the type while a dispatch to hB and
\* hA was calling hB, and that dispatch went on to call hA; an event of the
\* type dispatched now would reach hB alone.
C16_Witness ==
    /\ <<"inventory.updated", "hA">> \in unsubscribed
    /\ subscribers["inventory.updated"] = <<"hB">>
    /\ all_subscribers = << >>
    /\ \E k \in DOMAIN tasks :
          /\ tasks[k].d.event_type = "inventory.updated"
          /\ tasks[k].d.handlers = <<"hB", "hA">>
          /\ tasks[k].d.calls[2] = 1

----------------------------------------------------------------------------
(* Construction and publication of arbitrary values.  An argument of the
   Event constructor is a record naming the class of the Python value. *)

\* Event(event_type=..., payload=...): __post_init__ raises TypeError unless
\* event_type is an EventType member and payload a dict.
NewEvent(event_id, event_type, payload) ==
    IF event_type.cls # "EventType" \/ payload.cls # "dict"
    THEN [raised |-> "TypeError", event |-> NoOp]
    ELSE [raised |-> None,
          event |-> [event_id |-> event_id, event_type |-> event_type.value,
                     payload |-> payload.items, source |-> "system",
                     household_id |-> None]]

\* A caller evaluates Event(event_type=event_type, payload=payload).
Construct(event_type, payload) ==
    LET r == NewEvent(npub + 1, event_type, payload)
    IN  /\ opResult' = [op |-> "Event", event_type |-> event_type,
                        payload |-> payload, raised |-> r.raised, event |-> r.event]
        /\ UNCHANGED <<now, ticks, cache, accepted>>
        /\ UnchangedService
        /\ UnchangedBus

\* The caller publishes the Event it constructed.
PublishConstructed ==
    /\ opResult.op = "Event"
    /\ opResult.raised = None
    /\ Publish(opResult.event)

\* Argument values: an EventType member, the plain string of a member's
\* value, a plain string that is no member's value, None; a dict, a list,
\* None.
EventTypeArgs ==
    { [cls |-> "EventType", value |-> "inventory.updated"],
      [cls |-> "EventType", value |-> "system.error"],
      [cls |-> "str", value |-> "inventory.updated"],
      [cls |-> "str", value |-> "inventory.changed"],
      [cls |-> "NoneType", value |-> None] }

PayloadArgs ==
    { [cls |-> "dict", items |-> << >>],
      [cls |-> "list", items |-> << >>],
      [cls |-> "NoneType", items |-> << >>] }

\* Values that are not Events.
NonEvents == PayloadArgs \cup { [cls |-> "str", value |-> "inventory.updated"] }

NextTyped ==
    \/ Len(tasks) < 1 /\ Start
    \/ NumSubs < 1 /\ SubscribeAll("hA")
    \/ npub < MaxPublishTyped
          /\ \E ty \in EventTypeArgs, pl \in PayloadArgs : Construct(ty, pl)
    \/ npub < MaxPublishTyped /\ PublishConstructed
    \/ npub < MaxPublishTyped /\ \E v \in NonEvents : Publish(v)
    \/ \E k \in DOMAIN tasks : Dequeue(k)
    \/ \E k \in DOMAIN tasks : HandlerReturns(k, "ok")

SpecTyped == Init /\ [][NextTyped]_vars

\* The value is an Event whose event_type is the value of an EventType
\* member.
Conforming(value) ==
    IF DOMAIN value = EventFields THEN value.event_type \in EventTypeValues ELSE FALSE

\* C15: the Event constructor raises TypeError unless event_type is an
\* EventType member and payload a dict; a publish call that raises TypeError
\* leaves the queue unchanged and every other one appends its argument; and
\* every value in the queue, and every value dispatched to a handler, is an
\* Event with an EventType member as its type.
C15_OnlyTypedEvents ==
    [][ /\ opResult'.op = "Event" /\ opResult' # opResult
           => /\ queue' = queue
              /\ opResult'.raised = None
                    <=> /\ opResult'.event_type.cls = "EventType"
                        /\ opResult'.payload.cls = "dict"
        /\ npub' = npub + 1
           => /\ opResult'.op = "publish"
              /\ opResult'.raised = "TypeError" => queue' = queue
              /\ opResult'.raised = None => Len(queue') = Len(queue) + 1
        /\ \A i \in DOMAIN queue' : Conforming(queue'[i])
        /\ \A k \in DOMAIN tasks' :
              tasks'[k].d.handlers # << >>
                  => tasks'[k].d.event_type \in EventTypeValues
      ]_vars

\* C15 witness: an Event was published and dispatched to the handler, and a
\* publish of a value that is not an Event has just raised TypeError.
C15_Witness ==
    /\ npub = 2
    /\ opResult.op = "publish"
    /\ opResult.raised = "TypeError"
    /\ dispatchLog.invoked = {1}
    /\ queue = << >>

----------------------------------------------------------------------------
(* Progress of the dispatch loop.  The event loop runs the worker task
   whenever an event is in the queue, and a handler call ends: weak fairness
   of the dequeue step and of the end of a handler call. *)

DequeueStep == \E k \in DOMAIN tasks : Dequeue(k)

HandlerStep ==
    \E k \in DOMAIN tasks, o \in {"ok", "raise", "cancelled"} :
        /\ tasks[k].cancel => o = "cancelled"
        /\ HandlerReturns(k, o)

NextLive ==
    \/ Len(tasks) < MaxTasksLive /\ Start
    \/ Stop
    \/ NumSubs < MaxSubsLive /\ Subscribe("inventory.updated", NumSubs + 1)
    \/ NumSubs < MaxSubsLive /\ SubscribeAll(NumSubs + 1)
    \/ npub < MaxPublishLive /\ Publish(BusEvent(npub + 1, "inventory.updated"))
    \/ DequeueStep
    \/ \E k \in DOMAIN tasks : WorkerExit(k)
    \/ HandlerStep

SpecLive ==
    Init /\ [][NextLive]_vars /\ WF_vars(DequeueStep) /\ WF_vars(HandlerStep)

InQueue(id) == \E i \in DOMAIN queue : queue[i].event_id = id

\* The event with the id passed the duplicate check and its dispatch called
\* every handler it had taken.
Delivered(id) ==
    /\ id \in dispatchLog.ever
    /\ \E k \in DOMAIN tasks :
          /\ tasks[k].d.event_id = id
          /\ tasks[k].pc \notin {"call", "retry"}
          /\ \A j \in DOMAIN tasks[k].d.handlers : tasks[k].d.calls[j] >= 1

\* A dispatch in which a handler raised on its first call and on its retry.
FailingDispatch ==
    \E k \in DOMAIN tasks :
        \E j \in DOMAIN tasks[k].d.handlers : tasks[k].d.retry[j] = "raise"

\* C12: a retry that raises changes neither the queue nor the running flag
\* nor what publish returned, and leaves the task in the loop; and an event
\* that is in the queue while such a dispatch is the latest is dispatched
\* later, unless the bus is stopped.
C12_FailingHandlerDoesNotStopLoop ==
    /\ [][ \A k \in DOMAIN tasks :
               /\ tasks[k].pc = "retry"
               /\ \E j \in DOMAIN tasks'[k].d.handlers :
                     tasks'[k].d.retry[j] = "raise" /\ tasks[k].d.retry[j] = "none"
               => /\ queue' = queue
                  /\ running' = running
                  /\ opResult' = opResult
                  /\ running => tasks'[k].pc \in {"call", "wait"}
         ]_vars
    /\ \A id \in 1..MaxPublishLive :
          (running /\ InQueue(id) /\ FailingDispatch)
              ~> (id \in dispatchLog.ever \/ ~running)

\* C12 witness: the handler raised on its first call and on its retry for
\* the first event while the second was in the queue, and the task is back
\* at the wait for the next event.
C12_Witness ==
    /\ running
    /\ InQueue(2)
    /\ \E k \in DOMAIN tasks :
          /\ tasks[k].pc = "wait"
          /\ tasks[k].d.event_id = 1
          /\ tasks[k].d.first = <<"raise">>
          /\ tasks[k].d.retry = <<"raise">>

\* C17: an event in the queue of a running bus is dispatched and every
\* handler subscribed when the dispatch starts is called, unless the bus is
\* stopped first.
C17_AtLeastOnce ==
    \A id \in 1..MaxPublishLive :
        (running /\ InQueue(id)) ~> (Delivered(id) \/ ~running)

\* C17 witness: both events published were delivered to the handler, the
\* bus still running.
C17_Witness ==
    /\ running
    /\ npub = 2
    /\ queue = << >>
    /\ dispatchLog.invoked = {1, 2}
    /\ Delivered(2)

----------------------------------------------------------------------------
(* Concurrent calls of should_accept.  A call reads the clock (line 46),
   waits for the lock (line 48), reads the recorded time (line 49), decides
   and records (lines 51-67) and releases the lock on leaving the block.
   The block holds no await, so a cooperative scheduler switches tasks only
   at the lock; the model also lets a switch happen after line 49, which is
   what callers on several threads would add. *)

\* settings.iot_image_debounce_seconds
IotImageDebounceSeconds == 900

\* asyncio.Lock with every waiter let in.
LockFree_Always(l) == TRUE

\* `async with self._lock`: the block is entered when no task holds the lock.
LockFree(l) == l = 0

\* self._cache.get(key), as a cache holding at most the entry of the key
LastAccepted(c, key) ==
    IF key \in DOMAIN c THEN [k \in {key} |-> c[key]] ELSE << >>

\* self._cache[key] = now
Record(c, key, t) ==
    [k \in DOMAIN c \cup {key} |-> IF k = key THEN t ELSE c[k]]

UnchangedFridge ==
    UNCHANGED <<history, appended, pending, routed, l1_agents, handling,
                requests, trace>>

UnchangedRouter ==
    UNCHANGED <<delivered, queue, nextId, ncalls, lastCall, busVars, obsVars>>

\* A task calls should_accept(key, debounce_seconds) and reaches line 48.
EnterShouldAccept(key, debounce_seconds) ==
    /\ Len(callers) < MaxCallers
    /\ callers' = Append(callers,
                         [pc |-> "lock", key |-> key,
                          debounce_seconds |-> debounce_seconds, now |-> now,
                          last_accepted |-> << >>, result |-> None])
    /\ UNCHANGED <<now, ticks, cache, lock>>
    /\ UnchangedFridge
    /\ UnchangedRouter

\* The task takes the lock and reads the recorded time of its key.
AcquireAndRead(k) ==
    /\ k \in DOMAIN callers
    /\ callers[k].pc = "lock"
    /\ LockFree(lock)
    /\ lock' = k
    /\ callers' = [callers EXCEPT ![k].pc = "decide",
                                  ![k].last_accepted = LastAccepted(cache, callers[k].key)]
    /\ UNCHANGED <<now, ticks, cache>>
    /\ UnchangedFridge
    /\ UnchangedRouter

\* The task decides, records when it accepts, leaves the block and returns.
DecideAndRelease(k) ==
    /\ k \in DOMAIN callers
    /\ callers[k].pc = "decide"
    /\ LET c == callers[k]
           r == ShouldAccept(c.last_accepted, c.key, c.debounce_seconds, c.now)
       IN  /\ cache' = IF r.accepted THEN Record(cache, c.key, c.now) ELSE cache
           /\ callers' = [callers EXCEPT ![k].pc = "done", ![k].result = r.accepted]
    /\ lock' = IF lock = k THEN 0 ELSE lock
    /\ UNCHANGED <<now, ticks>>
    /\ UnchangedFridge
    /\ UnchangedRouter

\* The two convenience functions: should_accept_iot_image and
\* should_send_expiry_notification.
ConcurrentCalls ==
    { <<"iot_image:h1", IotImageDebounceSeconds>>,
      <<ExpiryKey("h1", "milk"), ExpiryThrottleSeconds>> }

NextConcurrent ==
    \/ Tick
    \/ \E call \in ConcurrentCalls : EnterShouldAccept(call[1], call[2])
    \/ \E k \in 1..MaxCallers : AcquireAndRead(k)
    \/ \E k \in 1..MaxCallers : DecideAndRelease(k)

SpecConcurrent == Init /\ [][NextConcurrent]_vars

\* The calls of should_accept(key, I) made so far, and those that returned.
CallsOf(key, I) ==
    { k \in DOMAIN callers : callers[k].key = key /\ callers[k].debounce_seconds = I }

Returned(k) == callers[k].pc = "done"

\* C21: of the should_accept calls made for one key within one interval,
\* once all have returned exactly one has returned true, in every
\* interleaving; two accepted calls of a key are never less than the
\* interval apart; and the time recorded for a key never moves backwards.
C21_ExactlyOneAccepted ==
    /\ [](\A call \in ConcurrentCalls :
            LET group == CallsOf(call[1], call[2])
            IN  /\ \A i, j \in group :
                      (i # j /\ Returned(i) /\ Returned(j)
                            /\ callers[i].result /\ callers[j].result)
                          => Abs(callers[i].now - callers[j].now) >= call[2]
                /\ (/\ group # {}
                    /\ \A i \in group : Returned(i)
                    /\ \A i, j \in group :
                          Abs(callers[i].now - callers[j].now) < call[2])
                   => Cardinality({ i \in group : callers[i].result }) = 1)
    /\ [][\A key \in DOMAIN cache :
              key \in DOMAIN cache' /\ cache'[key] >= cache[key]]_vars

\* Two calls for one key, the second made one second after the first and
\* entering the block first: the second is accepted, the first rejected.
C21_Witness ==
    /\ Len(callers) = 2
    /\ callers[1].key = callers[2].key
    /\ callers[1].now = 0 /\ callers[2].now = 1
    /\ Returned(1) /\ Returned(2)
    /\ callers[2].result = TRUE
    /\ callers[1].result = FALSE

----------------------------------------------------------------------------
(* app/services/temporal_comparison_service.py

   An observed item is a record of its name, category, confidence and
   location; a frame of the history is the record _store_observation
   builds.  Confidences are in hundredths (0.5 is 50).  Names and locations
   are free text, categories are the values of ItemCategory.  The items of
   a frame carry names that differ from each other after lower-casing.  The
   timestamps of the change events are left out: no branch reads them. *)

PRESENCE_THRESHOLD == 50

\* Strings compared as they are.
\* str.lower(), on the strings of the model
Lower(str) ==
    CASE str = "Milk" -> "milk"
      [] str = "Door" -> "door"
      [] str = "Top Shelf" -> "top shelf"
      [] str = "Unknown" -> "unknown"
      [] str = "Dairy" -> "dairy"
      [] OTHER -> str

\* {item.get("name", "").lower() for item in items}
LowerNames(items) == { Lower(items[i].name) : i \in DOMAIN items }

ItemAddedEvent(item) ==
    [item_name |-> item.name, location |-> item.location,
     confidence |-> item.confidence, category |-> item.category]

ItemRemovedEvent(item, frames_present) ==
    [item_name |-> item.name, last_location |-> item.location,
     last_confidence |-> item.confidence,
     was_present_for_frames |-> frames_present]

ItemMovedEvent(prev_item, curr_item) ==
    [item_name |-> curr_item.name, from_location |-> prev_item.location,
     to_location |-> curr_item.location]

ConsumptionEvent(removed_item, category, consumption_confidence) ==
    [item_name |-> removed_item.item_name, category |-> category,
     consumption_confidence |-> consumption_confidence]

NoChanges ==
    [items_added |-> << >>, items_removed |-> << >>, items_moved |-> << >>,
     consumption_events |-> << >>]

\* _count_presence_in_history: the frames that list the name, at any confidence
CountPresenceInHistory(item_name, frames) ==
    Cardinality({ f \in DOMAIN frames :
                    Lower(item_name) \in LowerNames(frames[f].items) })

\* detect_item_additions
DetectItemAdditions(current, previous) ==
    LET previous_names == LowerNames(previous)
        new(item) == /\ ~(item.confidence < PRESENCE_THRESHOLD)
                     /\ Lower(item.name) # ""
                     /\ Lower(item.name) \notin previous_names
        kept == SelectSeq(current, new)
    IN  [i \in 1..Len(kept) |-> ItemAddedEvent(kept[i])]

\* detect_item_removals counting the frames before the latest one only.
DetectItemRemovals_CountsEarlierFrames(current, previous, all_frames) ==
    LET current_names == LowerNames(current)
        frames_present(item) ==
            CountPresenceInHistory(Lower(item.name),
                                   SubSeq(all_frames, 1, Len(all_frames) - 1))
        gone(item) == /\ ~(item.confidence < PRESENCE_THRESHOLD)
                      /\ Lower(item.name) # ""
                      /\ Lower(item.name) \notin current_names
                      /\ frames_present(item) >= 1
        kept == SelectSeq(previous, gone)
    IN  [i \in 1..Len(kept) |-> ItemRemovedEvent(kept[i], frames_present(kept[i]))]

\* detect_item_removals
DetectItemRemovals(current, previous, all_frames) ==
    LET current_names == LowerNames(current)
        frames_present(item) == CountPresenceInHistory(Lower(item.name), all_frames)
        gone(item) == /\ ~(item.confidence < PRESENCE_THRESHOLD)
                      /\ Lower(item.name) # ""
                      /\ Lower(item.name) \notin current_names
                      /\ frames_present(item) >= 1
        kept == SelectSeq(previous, gone)
    IN  [i \in 1..Len(kept) |-> ItemRemovedEvent(kept[i], frames_present(kept[i]))]

\* The keys of {item.get("name", "").lower(): item for item in items}, in
\* the order the dict iterates them: that of their first insertion.
MapKeys(items) ==
    LET first(i) == \A j \in 1..(i - 1) : Lower(items[j].name) # Lower(items[i].name)
        idx == SelectSeq([i \in 1..Len(items) |-> i], first)
    IN  [k \in 1..Len(idx) |-> Lower(items[idx[k]].name)]

\* The value of the dict under a key: the last item inserted under it.
MapValue(items, key) ==
    items[SetMax({ i \in DOMAIN items : Lower(items[i].name) = key })]

\* detect_item_movements matching the names as they are written.
DetectItemMovements_ExactNames(current, previous) ==
    LET named(items, name) == CHOOSE item \in Range(items) : item.name = name
        moved(item) ==
            /\ item.name \in { previous[i].name : i \in DOMAIN previous }
            /\ LET curr_location == Lower(item.location)
                   prev_location == Lower(named(previous, item.name).location)
               IN  /\ curr_location # prev_location
                   /\ curr_location # "unknown"
                   /\ prev_location # "unknown"
        kept == SelectSeq(current, moved)
    IN  [i \in 1..Len(kept) |->
            ItemMovedEvent(named(previous, kept[i].name), kept[i])]

\* detect_item_movements
DetectItemMovements(current, previous) ==
    LET moved(name) ==
            /\ name \in LowerNames(previous)
            /\ LET curr_location == Lower(MapValue(current, name).location)
                   prev_location == Lower(MapValue(previous, name).location)
               IN  /\ curr_location # prev_location
                   /\ curr_location # "unknown"
                   /\ prev_location # "unknown"
        kept == SelectSeq(MapKeys(current), moved)
    IN  [i \in 1..Len(kept) |->
            ItemMovedEvent(MapValue(previous, kept[i]), MapValue(current, kept[i]))]

\* The category detect_consumption finds in the history: each frame that
\* lists the name overwrites it with that of its first item under the name.
CategoryFromHistory(item_name_lower, observation_history) ==
    LET frames == { f \in DOMAIN observation_history :
                      item_name_lower \in LowerNames(observation_history[f].items) }
    IN  IF frames = {} THEN "unknown"
        ELSE LET items == observation_history[SetMax(frames)].items
                 i == CHOOSE i \in DOMAIN items :
                          /\ Lower(items[i].name) = item_name_lower
                          /\ \A j \in 1..(i - 1) : Lower(items[j].name) # item_name_lower
             IN  items[i].category

ConsumableCategories ==
    { "dairy", "produce", "meat", "seafood", "beverages", "leftovers" }

\* detect_consumption without the bonus of the consumable categories.
DetectConsumption_NoBonus(removed_item, observation_history) ==
    LET item_name_lower == Lower(removed_item.item_name)
        appearance_count == CountPresenceInHistory(item_name_lower, observation_history)
        category == CategoryFromHistory(item_name_lower, observation_history)
    IN  IF appearance_count < 2 THEN << >>
        ELSE << ConsumptionEvent(removed_item, category,
                                 Min(100, Min(95, 50 + appearance_count * 10))) >>

\* detect_consumption: the event as a list of one, the empty list for None
DetectConsumption(removed_item, observation_history) ==
    LET item_name_lower == Lower(removed_item.item_name)
        appearance_count == CountPresenceInHistory(item_name_lower, observation_history)
        base == Min(95, 50 + appearance_count * 10)
        category == CategoryFromHistory(item_name_lower, observation_history)
        consumption_confidence ==
            IF Lower(category) \in ConsumableCategories THEN base + 10 ELSE base
    IN  IF appearance_count < 2 THEN << >>
        ELSE << ConsumptionEvent(removed_item, category,
                                 Min(100, consumption_confidence)) >>

RECURSIVE ConsumptionLoop(_, _)
ConsumptionLoop(removals, previous_frames) ==
    IF removals = << >> THEN << >>
    ELSE DetectConsumption(Head(removals), previous_frames)
         \o ConsumptionLoop(Tail(removals), previous_frames)

\* compare_frames running the detectors on the first frame as well.
CompareFrames_NoShortCircuit(current_items, previous_frames) ==
    LET previous_items ==
            IF previous_frames = << >> THEN << >>
            ELSE previous_frames[Len(previous_frames)].items
        removals == DetectItemRemovals(current_items, previous_items, previous_frames)
    IN  [items_added |-> DetectItemAdditions(current_items, previous_items),
         items_removed |-> removals,
         items_moved |-> DetectItemMovements(current_items, previous_items),
         consumption_events |-> ConsumptionLoop(removals, previous_frames)]

\* compare_frames
CompareFrames(current_items, previous_frames) ==
    IF previous_frames = << >>
    THEN [NoChanges EXCEPT !.items_added =
              [i \in 1..Len(current_items) |-> ItemAddedEvent(current_items[i])]]
    ELSE LET previous_items == previous_frames[Len(previous_frames)].items
             removals == DetectItemRemovals(current_items, previous_items,
                                            previous_frames)
         IN  [items_added |-> DetectItemAdditions(current_items, previous_items),
              items_removed |-> removals,
              items_moved |-> DetectItemMovements(current_items, previous_items),
              consumption_events |-> ConsumptionLoop(removals, previous_frames)]

----------------------------------------------------------------------------
(* Direct calls of compare_frames *)

Item(name, category, confidence, location) ==
    [name |-> name, category |-> category, confidence |-> confidence,
     location |-> location]

\* The observation _store_observation builds of a frame.
Observation(frame_items, t) ==
    [timestamp |-> t, items |-> frame_items, item_count |-> Len(frame_items)]

\* The lists of at most n items of a set whose names differ after lower-casing.
FramesOf(items, n) ==
    { f \in UNION { [1..k -> items] : k \in 0..n } :
        \A i, j \in DOMAIN f : i # j => Lower(f[i].name) # Lower(f[j].name) }

\* First frames: confidences below, at and above the presence threshold.
FirstFrameItems ==
    { Item("milk", "dairy", c, "door") : c \in {40, 50, 90} }
    \cup { Item("eggs", "other", c, "unknown") : c \in {40, 50, 90} }
    \cup { Item("Juice", "beverages", c, "Top Shelf") : c \in {49, 100} }

\* Two frames: names and locations in both letter cases.
MovedItems ==
    { Item(n, "dairy", 90, l) : n \in {"milk", "Milk"},
                                l \in {"door", "Door", "top shelf", "Unknown"} }
    \cup { Item("eggs", "other", 90, l) : l \in {"door", "unknown"} }

\* Longer histories over a few frames.
HistoryFrames ==
    { << >>,
      << Item("milk", "dairy", 90, "door") >>,
      << Item("Milk", "dairy", 40, "door") >>,
      << Item("eggs", "other", 90, "door"), Item("milk", "dairy", 50, "door") >> }

CompareInputs ==
    { << current, << >> >> : current \in FramesOf(FirstFrameItems, MaxItems) }
    \cup { << current, << Observation(previous, 0) >> >> :
               current \in FramesOf(MovedItems, MaxItems),
               previous \in FramesOf(MovedItems, MaxItems) }
    \cup { << current, [i \in DOMAIN frames |-> Observation(frames[i], 0)] >> :
               current \in HistoryFrames,
               frames \in UNION { [1..n -> HistoryFrames] : n \in 1..MaxHistory } }

\* A call of temporal_comparison_service.compare_frames
CompareFramesCall(current_items, previous_frames) ==
    /\ opResult' = [op |-> "compare_frames", current_items |-> current_items,
                    previous_frames |-> previous_frames,
                    changes |-> CompareFrames(current_items, previous_frames)]
    /\ UNCHANGED <<now, ticks, cache, accepted>>
    /\ UnchangedService
    /\ UnchangedBus

\* The service keeps no state between calls, so a behaviour makes one call.
NextCompare ==
    /\ opResult = NoOp
    /\ \E inp \in CompareInputs : CompareFramesCall(inp[1], inp[2])

SpecCompare == Init /\ [][NextCompare]_vars

\* The events of a list that are about a name, whatever its letter case.
EventsFor(events, name) ==
    SelectSeq(events, LAMBDA e : Lower(e.item_name) = Lower(name))

\* The items of a frame under a name.
ItemsNamed(items, name) ==
    { items[i] : i \in { i \in DOMAIN items : Lower(items[i].name) = Lower(name) } }

IsCompare == opResult.op = "compare_frames"

----------------------------------------------------------------------------
(* Properties of the frame comparison *)

FirstFrameCall == IsCompare /\ opResult.previous_frames = << >>

LaterFrameCall == IsCompare /\ opResult.previous_frames # << >>

\* The items of the latest frame of the history the call was given.
PreviousItems == Last(opResult.previous_frames).items

\* C23 as stated: the comparison of a first frame (empty history) reports
\* one ItemAdded for each item whose confidence is at least 0.5, none for an
\* item below 0.5, and no removal, movement or consumption.
C23_FirstFrameAddsConfidentItems ==
    FirstFrameCall =>
        LET current == opResult.current_items
            changes == opResult.changes
        IN  /\ \A i \in DOMAIN current :
                  Len(EventsFor(changes.items_added, current[i].name))
                      = IF current[i].confidence >= PRESENCE_THRESHOLD THEN 1 ELSE 0
            /\ changes.items_removed = << >>
            /\ changes.items_moved = << >>
            /\ changes.consumption_events = << >>

\* C23, amended: the comparison of a first frame reports one ItemAdded for
\* each item of the frame, whatever its confidence, in the order of the
\* frame, and no removal, movement or consumption.
C23_FirstFrameAddsEveryItem ==
    FirstFrameCall =>
        LET current == opResult.current_items
            changes == opResult.changes
        IN  /\ Len(changes.items_added) = Len(current)
            /\ \A i \in DOMAIN current :
                  /\ changes.items_added[i].item_name = current[i].name
                  /\ changes.items_added[i].confidence = current[i].confidence
                  /\ Len(EventsFor(changes.items_added, current[i].name)) = 1
            /\ changes.items_removed = << >>
            /\ changes.items_moved = << >>
            /\ changes.consumption_events = << >>

\* A first frame of one item at 0.4 and one at 0.9: two ItemAdded.
C23_Witness ==
    /\ FirstFrameCall
    /\ Len(opResult.current_items) = 2
    /\ opResult.current_items[1].confidence = 40
    /\ opResult.current_items[2].confidence = 90
    /\ Len(opResult.changes.items_added) = 2
    /\ opResult.changes.items_added[1].confidence = 40

\* C24 as stated: an item under one name (case-insensitive) in the previous
\* and in the current frame, at two different location strings of which
\* neither is "unknown", gives exactly one ItemMoved from the previous to
\* the current location and no ItemAdded or ItemRemoved for the name.
C24_MovedItem ==
    LaterFrameCall =>
        \A p \in Range(PreviousItems), c \in Range(opResult.current_items) :
            (/\ Lower(p.name) = Lower(c.name)
             /\ p.location # c.location
             /\ p.location # "unknown"
             /\ c.location # "unknown")
            => /\ EventsFor(opResult.changes.items_moved, c.name)
                    = << [item_name |-> c.name, from_location |-> p.location,
                          to_location |-> c.location] >>
               /\ EventsFor(opResult.changes.items_added, c.name) = << >>
               /\ EventsFor(opResult.changes.items_removed, c.name) = << >>

\* C24, amended: an item under one name (case-insensitive) in the previous
\* and in the current frame, at two locations that differ when compared
\* case-insensitively and of which neither is "unknown" in any letter case,
\* gives exactly one ItemMoved from the previous to the current location
\* and no ItemAdded or ItemRemoved for the name.
C24_MovedItemCaseInsensitive ==
    LaterFrameCall =>
        \A p \in Range(PreviousItems), c \in Range(opResult.current_items) :
            (/\ Lower(p.name) = Lower(c.name)
             /\ Lower(p.location) # Lower(c.location)
             /\ Lower(p.location) # "unknown"
             /\ Lower(c.location) # "unknown")
            => /\ EventsFor(opResult.changes.items_moved, c.name)
                    = << [item_name |-> c.name, from_location |-> p.location,
                          to_location |-> c.location] >>
               /\ EventsFor(opResult.changes.items_added, c.name) = << >>
               /\ EventsFor(opResult.changes.items_removed, c.name) = << >>

\* "milk" at "door", then "Milk" at "top shelf": one ItemMoved.
C24_Witness ==
    /\ LaterFrameCall
    /\ PreviousItems = << Item("milk", "dairy", 90, "door") >>
    /\ opResult.current_items = << Item("Milk", "dairy", 90, "top shelf") >>
    /\ opResult.changes.items_moved
           = << [item_name |-> "Milk", from_location |-> "door",
                 to_location |-> "top shelf"] >>
    /\ opResult.changes.items_added = << >>

\* The frames of the history given to the call that list the name.
AppearanceCount(name) ==
    Cardinality({ f \in DOMAIN opResult.previous_frames :
                    \E item \in Range(opResult.previous_frames[f].items) :
                        Lower(item.name) = Lower(name) })

\* C26: for a removed item that appears in n frames of the history, no
\* ConsumptionLikely is produced when n < 2 and exactly one when n >= 2, of
\* confidence min(1.0, min(0.95, 0.5 + 0.1 n) + b) with b = 0.1 for an item
\* of category dairy, produce, meat, seafood, beverages or leftovers and 0
\* otherwise; no ConsumptionLikely is produced for a name without an
\* ItemRemoved in the same comparison.
C26_ConsumptionConfidence ==
    IsCompare =>
        LET changes == opResult.changes
        IN  /\ \A r \in Range(changes.items_removed) :
                  LET n == AppearanceCount(r.item_name)
                      item == CHOOSE p \in Range(PreviousItems) : p.name = r.item_name
                      b == IF item.category \in { "dairy", "produce", "meat", "seafood",
                                                  "beverages", "leftovers" }
                           THEN 10 ELSE 0
                      events == EventsFor(changes.consumption_events, r.item_name)
                  IN  IF n < 2 THEN events = << >>
                      ELSE /\ Len(events) = 1
                           /\ events[1].consumption_confidence
                                  = Min(100, Min(95, 50 + 10 * n) + b)
            /\ \A e \in Range(changes.consumption_events) :
                  EventsFor(changes.items_removed, e.item_name) # << >>

\* Milk listed in five frames and then gone: min(0.95, 1.0) + 0.1, cut to 1.0.
C26_Witness ==
    /\ LaterFrameCall
    /\ Len(opResult.changes.items_removed) = 1
    /\ AppearanceCount(opResult.changes.items_removed[1].item_name) = 5
    /\ Len(opResult.changes.consumption_events) = 1
    /\ opResult.changes.consumption_events[1].category = "dairy"
    /\ opResult.changes.consumption_events[1].consumption_confidence = 100

----------------------------------------------------------------------------
(* app/agents/domus_fridge.py: the fridge agent of a household.  The agent's
   _current_inventory is the item list of its latest stored observation and
   is not kept apart; _last_analysis and _latest_image_path are written and
   never read by the code modelled. *)

\* DomusFridge._max_observation_frames
max_observation_frames == 10

\* _store_observation keeping the oldest frames on overflow.
StoreObservation_KeepsOldest(hist, frame_items, t) ==
    LET all == Append(hist, Observation(frame_items, t))
    IN  IF Len(all) > max_observation_frames
        THEN SubSeq(all, 1, max_observation_frames)
        ELSE all

\* _store_observation: the history it leaves
StoreObservation(hist, frame_items, t) ==
    LET all == Append(hist, Observation(frame_items, t))
    IN  IF Len(all) > max_observation_frames
        THEN SubSeq(all, Len(all) - max_observation_frames + 1, Len(all))
        ELSE all

\* The history compared when the frame has been stored first.
HistoryCompared_AfterStore(hist, frame_items, t) ==
    StoreObservation(hist, frame_items, t)

\* previous_frames of _run_temporal_analysis: self._observation_history at
\* line 132, before line 135 stores the frame
HistoryCompared(hist, frame_items, t) == hist

\* An intent before emit_intent: its type and its payload, the list of the
\* item names it is about.
Finding(intent_type, payload) == [intent_type |-> intent_type, payload |-> payload]

FindingsOf(events, intent_type) ==
    [i \in 1..Len(events) |-> Finding(intent_type, << events[i].item_name >>)]

\* _emit_temporal_intents: additions, removals, movements, consumption
TemporalFindings(changes) ==
    FindingsOf(changes.items_added, "item_added")
    \o FindingsOf(changes.items_removed, "item_removed")
    \o FindingsOf(changes.items_moved, "item_moved")
    \o FindingsOf(changes.consumption_events, "consumption_likely")

ItemNames(items) == [i \in 1..Len(items) |-> items[i].name]

\* days_map of _estimate_expiration
EstimatedDays(category) ==
    CASE category = "dairy" -> 7
      [] category = "produce" -> 5
      [] category = "meat" -> 3
      [] category = "seafood" -> 2
      [] category = "beverages" -> 30
      [] category = "condiments" -> 90
      [] category = "leftovers" -> 3
      [] category = "frozen" -> 180
      [] OTHER -> 14

\* (exp_date - now).days of an item whose expiration _normalize_item
\* estimated: the clock has moved on since, so the last day is not whole.
DaysUntil(item) == EstimatedDays(item.category) - 1

\* _check_expiry
ExpiryFindings(inventory) ==
    LET expired == SelectSeq(inventory, LAMBDA item : DaysUntil(item) < 0)
        expiring_soon == SelectSeq(inventory, LAMBDA item :
                                      ~(DaysUntil(item) < 0) /\ DaysUntil(item) <= 3)
    IN  (IF expired # << >>
         THEN << Finding("detected_expiry", ItemNames(expired)) >> ELSE << >>)
        \o (IF expiring_soon # << >>
            THEN << Finding("expiry_warning", ItemNames(expiring_soon)) >> ELSE << >>)

\* The staples of _check_procurement_needs, in one order: the order of
\* list(missing_staples) is that of a set and nothing reads it.
Staples == << "bread", "butter", "cheese", "eggs", "milk" >>

\* _check_procurement_needs
ProcurementFindings(inventory) ==
    LET missing_staples == SelectSeq(Staples, LAMBDA x : x \notin LowerNames(inventory))
    IN  IF missing_staples # << >>
        THEN << Finding("require_procurement", missing_staples) >>
        ELSE << >>

\* emit_intent for each finding in turn: uuid4 ids, source_agent, household
EmitIntents(household_id, findings, first_id) ==
    [i \in 1..Len(findings) |->
        [intent_id |-> first_id + i - 1,
         intent_type |-> findings[i].intent_type,
         household_id |-> household_id,
         payload |-> findings[i].payload]]

\* _process_image_analysis: the change set, the history it leaves and what
\* it emits.  An analysis is a record of its items and confidence, marked
\* empty for the None or {} that `if not analysis` catches.
ProcessImageAnalysis(hist, analysis, t) ==
    IF analysis.empty
    THEN [status |-> "error", changes |-> NoChanges, history |-> hist,
          findings |-> << Finding("analysis_failed", << >>) >>]
    ELSE LET new_inventory == analysis.items
             changes == CompareFrames(new_inventory,
                                      HistoryCompared(hist, new_inventory, t))
         IN  [status |-> "success",
              changes |-> changes,
              history |-> StoreObservation(hist, new_inventory, t),
              findings |->
                  (IF analysis.confidence < 50
                   THEN << Finding("confidence_degraded", << >>) >> ELSE << >>)
                  \o TemporalFindings(changes)
                  \o << Finding("inventory_updated", ItemNames(new_inventory)) >>
                  \o ExpiryFindings(new_inventory)
                  \o ProcurementFindings(new_inventory)]

\* What the analyze_image branch of DomusFridge.process does to the agent
\* of a household when its comparison read the buffer as `compared`.
FridgeProcessAgainst(household_id, analysis, compared) ==
    LET r == ProcessImageAnalysis(compared, analysis, now)
        stored == IF analysis.empty THEN history[household_id]
                  ELSE StoreObservation(history[household_id], analysis.items, now)
    IN  /\ history' = [history EXCEPT ![household_id] = stored]
        /\ appended' = IF analysis.empty THEN appended
                       ELSE [appended EXCEPT ![household_id] = Append(@, analysis.items)]
        /\ pending' = [pending EXCEPT ![household_id] =
                          @ \o EmitIntents(household_id, r.findings, nextId)]
        /\ nextId' = nextId + Len(r.findings)
        /\ opResult' = [op |-> "analyze_image", household_id |-> household_id,
                        analysis |-> analysis, status |-> r.status,
                        changes |-> r.changes]
        /\ UNCHANGED <<now, ticks, cache, delivered, queue, ncalls, lastCall>>
        /\ UNCHANGED <<accepted, unsubscribed, callers, lock, routed>>
        /\ UNCHANGED busVars

\* What the analyze_image branch of DomusFridge.process does to the agent
\* of a household.
FridgeProcess(household_id, analysis) ==
    FridgeProcessAgainst(household_id, analysis, history[household_id])

\* DomusFridge.process({"action": "analyze_image", "image_analysis": analysis})
\* on the agent of a household
AnalyzeImage(household_id, analysis) ==
    /\ FridgeProcess(household_id, analysis)
    /\ UNCHANGED <<l1_agents, handling, requests, trace>>

Analysis(items, confidence) ==
    [empty |-> FALSE, items |-> items, confidence |-> confidence]

NoAnalysis == [empty |-> TRUE, items |-> << >>, confidence |-> 0]

----------------------------------------------------------------------------
(* The rolling buffer over many frames of one household *)

Milk(location) == Item("milk", "dairy", 90, location)

BufferAnalyses == { Analysis(<< >>, 80), Analysis(<< Milk("door") >>, 80) }

NextBuffer ==
    \E analysis \in BufferAnalyses :
        /\ Len(appended["h1"]) < MaxFramesBuffer
        /\ AnalyzeImage("h1", analysis)

SpecBuffer == Init /\ [][NextBuffer]_vars

\* The last n elements of a sequence, all of them when it has fewer.
Newest(s, n) == SubSeq(s, Len(s) - Min(Len(s), n) + 1, Len(s))

ItemsOfFrames(frames) == [i \in 1..Len(frames) |-> frames[i].items]

\* C22: the buffer never holds more than 10 frames, and it holds the frames
\* appended most recently - all of them up to 10 appends, the 10 newest
\* after more - oldest first, in the order they were appended.
C22_BufferHoldsNewestFrames ==
    \A h \in Households :
        /\ Len(history[h]) <= 10
        /\ Len(history[h]) = Min(Len(appended[h]), 10)
        /\ ItemsOfFrames(history[h]) = Newest(appended[h], 10)

\* Eleven appends, the first with milk and the second without: the buffer
\* holds ten frames and starts with the second.
C22_Witness ==
    /\ Len(appended["h1"]) = 11
    /\ appended["h1"][1] = << Milk("door") >>
    /\ appended["h1"][2] = << >>
    /\ Len(history["h1"]) = 10
    /\ history["h1"][1].items = << >>

\* The frames before the latest one, which the latest call compared.
PriorFrames == SubSeq(appended["h1"], 1, Len(appended["h1"]) - 1)

\* The frames of a list of item lists that list the name.
FramesListing(frames, name) ==
    { f \in DOMAIN frames : \E item \in Range(frames[f]) : Lower(item.name) = Lower(name) }

\* An item of the frame before the latest one, present there, that the
\* latest frame does not list.
GoneFromLatest(item) ==
    /\ opResult.op = "analyze_image"
    /\ Len(appended["h1"]) >= 2
    /\ item \in Range(Last(PriorFrames))
    /\ item.confidence >= PRESENCE_THRESHOLD
    /\ FramesListing(<< Last(appended["h1"]) >>, item.name) = {}

\* C25 as stated: an item present in k >= 2 prior frames, the latest of them
\* included, and absent from the current frame gets exactly one ItemRemoved
\* whose frames_present is k, the number of all prior frames that list it,
\* and exactly one ConsumptionLikely.
C25_RemovedAfterAllPriorFrames ==
    \A item \in Range(IF Len(appended["h1"]) >= 2 THEN Last(PriorFrames) ELSE << >>) :
        LET k == Cardinality(FramesListing(PriorFrames, item.name))
            removed == EventsFor(opResult.changes.items_removed, item.name)
        IN  (GoneFromLatest(item) /\ k >= 2)
            => /\ Len(removed) = 1
               /\ removed[1].was_present_for_frames = k
               /\ Len(EventsFor(opResult.changes.consumption_events, item.name)) = 1

\* C25, amended: an item listed in k >= 2 of the buffered frames - the at
\* most 10 most recent prior frames - the latest of them included, and
\* absent from the current frame gets exactly one ItemRemoved whose
\* frames_present is k, and exactly one ConsumptionLikely.
C25_RemovedAfterBufferedFrames ==
    \A item \in Range(IF Len(appended["h1"]) >= 2 THEN Last(PriorFrames) ELSE << >>) :
        LET k == Cardinality(FramesListing(Newest(PriorFrames, 10), item.name))
            removed == EventsFor(opResult.changes.items_removed, item.name)
        IN  (GoneFromLatest(item) /\ k >= 2)
            => /\ Len(removed) = 1
               /\ removed[1].was_present_for_frames = k
               /\ Len(EventsFor(opResult.changes.consumption_events, item.name)) = 1

\* Milk in eleven frames and gone in the twelfth: frames_present is 10.
C25_Witness ==
    /\ Len(appended["h1"]) = 12
    /\ \A f \in 1..11 : appended["h1"][f] = << Milk("door") >>
    /\ appended["h1"][12] = << >>
    /\ Len(opResult.changes.items_removed) = 1
    /\ opResult.changes.items_removed[1].was_present_for_frames = 10
    /\ Len(opResult.changes.consumption_events) = 1

----------------------------------------------------------------------------
(* The fridge agent of one household over a few frames *)

FridgeAnalyses ==
    { Analysis(<< Milk("door") >>, 80),
      Analysis(<< Milk("top shelf") >>, 80),
      Analysis(<< >>, 80),
      Analysis(<< Item("steak", "meat", 90, "door") >>, 40),
      NoAnalysis }

NextFridge ==
    \E analysis \in FridgeAnalyses :
        /\ Len(pending["h1"]) < MaxPendingFridge
        /\ AnalyzeImage("h1", analysis)

SpecFridge == Init /\ [][NextFridge]_vars

\* The latest call analysed a frame, and these are all the frames so far.
FramesSoFar(frames) ==
    /\ opResult.op = "analyze_image"
    /\ ~opResult.analysis.empty
    /\ appended["h1"] = frames

\* C27: from an empty buffer, a frame with milk (dairy, 0.9) at the door
\* gives exactly one ItemAdded; a second frame with the milk at the top
\* shelf gives exactly one ItemMoved from door to top shelf and no ItemAdded
\* or ItemRemoved; a third frame without milk gives exactly one ItemRemoved
\* with frames_present 2 and exactly one ConsumptionLikely of confidence
\* 0.8.  Every frame is compared with the buffer as it was before the frame
\* was stored, and is the newest entry of the buffer afterwards.
C27_MilkScenario ==
    /\ [](/\ FramesSoFar(<< << Milk("door") >> >>)
             => opResult.changes
                    = [NoChanges EXCEPT !.items_added =
                                            << ItemAddedEvent(Milk("door")) >>]
          /\ FramesSoFar(<< << Milk("door") >>, << Milk("top shelf") >> >>)
             => opResult.changes
                    = [NoChanges EXCEPT !.items_moved =
                          << [item_name |-> "milk", from_location |-> "door",
                              to_location |-> "top shelf"] >>]
          /\ FramesSoFar(<< << Milk("door") >>, << Milk("top shelf") >>, << >> >>)
             => /\ Len(opResult.changes.items_removed) = 1
                /\ opResult.changes.items_removed[1].item_name = "milk"
                /\ opResult.changes.items_removed[1].was_present_for_frames = 2
                /\ Len(opResult.changes.consumption_events) = 1
                /\ opResult.changes.consumption_events[1].item_name = "milk"
                /\ opResult.changes.consumption_events[1].consumption_confidence = 80
                /\ opResult.changes.items_added = << >>
                /\ opResult.changes.items_moved = << >>)
    /\ [][appended' # appended
            => /\ opResult'.changes
                      = CompareFrames(Last(appended'["h1"]), history["h1"])
               /\ Last(history'["h1"]).items = Last(appended'["h1"])]_vars

\* The third frame of the scenario has been analysed.
C27_Witness ==
    /\ FramesSoFar(<< << Milk("door") >>, << Milk("top shelf") >>, << >> >>)
    /\ Len(history["h1"]) = 3
    /\ opResult.changes.consumption_events[1].consumption_confidence = 80
    /\ opResult.changes.items_removed[1].last_location = "top shelf"

----------------------------------------------------------------------------
(* app/agents/domus_orchestrator.py and app/agents/base.py: intents on
   their way from the fridge agents to _route_intents *)

\* get_or_create_fridge_agent: register_l1_agent on the first use of a household
RegisterAgent(agents, household_id) ==
    IF \E i \in DOMAIN agents : agents[i] = household_id THEN agents
    ELSE Append(agents, household_id)

\* get_pending_intents: intents = self._pending_intents.copy()
GetPendingIntents(pending_intents) == pending_intents

PendingAfterGet_NoClear(pending_intents) == pending_intents

\* get_pending_intents: self._pending_intents.clear()
PendingAfterGet(pending_intents) == << >>

\* collect_intents: extend by get_pending_intents() of each registered agent
RECURSIVE CollectIntents(_, _)
CollectIntents(agents, p) ==
    IF agents = << >> THEN << >>
    ELSE GetPendingIntents(p[Head(agents)]) \o CollectIntents(Tail(agents), p)

\* The delivery failures and the channel order the routing of a batch can
\* meet: a batch without a notified intent delivers nothing, so one choice
\* stands for all.
RouteChoices(intents) ==
    IF \E i \in DOMAIN intents : intents[i].intent_type \in NotifyingIntentTypes
    THEN (SUBSET {PUSH}) \X Orderings({IN_APP, PUSH, ALEXA})
    ELSE { << {}, << IN_APP, PUSH, ALEXA >> >> }

\* _handle_image_processing up to the end of `await fridge_agent.process(...)`
ImageBegin(household_id, analysis) ==
    /\ FridgeProcess(household_id, analysis)
    /\ l1_agents' = RegisterAgent(l1_agents, household_id)
    /\ handling' = [handling EXCEPT ![household_id] = @ + 1]

\* _handle_image_processing from get_pending_intents to the end of
\* _route_intents, the deliveries meeting one of the given choices
ImageCollectAmong(household_id, choices) ==
    /\ handling[household_id] > 0
    /\ LET intents == GetPendingIntents(pending[household_id])
       IN  \E c \in choices : RouteBatch(intents, c[2], c[1])
    /\ pending' = [pending EXCEPT ![household_id] = PendingAfterGet(@)]
    /\ handling' = [handling EXCEPT ![household_id] = @ - 1]
    /\ UNCHANGED obsVars
    /\ UNCHANGED <<callers, lock, history, appended, l1_agents>>

\* _handle_image_processing from get_pending_intents to the end of
\* _route_intents
ImageCollect(household_id) ==
    ImageCollectAmong(household_id,
                      RouteChoices(GetPendingIntents(pending[household_id])))

\* _process_pending_intents: collect_intents, then _route_intents
ProcessIntents ==
    /\ LET intents == CollectIntents(l1_agents, pending)
       IN  \E c \in RouteChoices(intents) : RouteBatch(intents, c[2], c[1])
    /\ pending' = [h \in Households |->
                      IF \E i \in DOMAIN l1_agents : l1_agents[i] = h
                      THEN PendingAfterGet(pending[h]) ELSE pending[h]]
    /\ UNCHANGED obsVars
    /\ UNCHANGED <<callers, lock, history, appended, l1_agents, handling,
                   requests, trace>>

\* DomusFridge.handle_hardware_event on the registered agent of a household
HandleHardwareEvent(household_id, event_type) ==
    /\ \E i \in DOMAIN l1_agents : l1_agents[i] = household_id
    /\ event_type \in { "disconnected", "connected" }
    /\ pending' = [pending EXCEPT ![household_id] =
                      @ \o EmitIntents(household_id,
                               << Finding(IF event_type = "disconnected"
                                          THEN "hardware_disconnected"
                                          ELSE "hardware_connected",
                                          << "fridge_camera" >>) >>,
                               nextId)]
    /\ nextId' = nextId + 1
    /\ UNCHANGED <<now, ticks, cache, delivered, queue, ncalls, lastCall>>
    /\ UNCHANGED <<callers, lock, history, appended, routed, l1_agents, handling,
                   requests, trace>>
    /\ UNCHANGED busVars
    /\ UNCHANGED obsVars

----------------------------------------------------------------------------
(* Image processing and intent collection in any interleaving *)

IntentAnalyses == { Analysis(<< Milk("door") >>, 80), NoAnalysis }

\* The intents emitted so far
Emitted ==
    Len(routed) + Len(pending["h1"]) + Len(pending["h2"])

IntentsImage ==
    \E household_id \in Households, analysis \in IntentAnalyses :
        /\ Emitted < MaxEmitted
        /\ ImageBegin(household_id, analysis)
        /\ UNCHANGED <<requests, trace>>

IntentsCollect ==
    \E household_id \in Households :
        /\ ImageCollect(household_id)
        /\ UNCHANGED <<requests, trace>>

IntentsHardware ==
    \E household_id \in Households, event_type \in { "disconnected", "connected" } :
        /\ Emitted < MaxEmitted
        /\ HandleHardwareEvent(household_id, event_type)

NextIntents == IntentsImage \/ IntentsCollect \/ ProcessIntents \/ IntentsHardware

SpecIntents == Init /\ [][NextIntents]_vars

----------------------------------------------------------------------------
(* Properties of the intent hand-over *)

IdsOf(intents) == { intents[i].intent_id : i \in DOMAIN intents }

PendingIds(p) == UNION { IdsOf(p[h]) : h \in Households }

\* C28: every intent a fridge agent emits is handed to exactly one
\* _route_intents batch: no intent is routed twice or stays pending once
\* routed, no pending intent disappears without being routed, a batch holds
\* only intents that were pending, and a collecting step takes every pending
\* intent of the agents it reads.
C28_IntentsRoutedExactlyOnce ==
    /\ [](/\ \A i, j \in DOMAIN routed :
                 routed[i].intent_id = routed[j].intent_id => i = j
          /\ PendingIds(pending) \cap IdsOf(routed) = {})
    /\ [][/\ PendingIds(pending) \subseteq PendingIds(pending') \cup IdsOf(routed')
          /\ IdsOf(routed') \subseteq IdsOf(routed) \cup PendingIds(pending)
          /\ routed' # routed =>
                 \E h \in Households : pending[h] # << >> /\ pending'[h] = << >>
          /\ \A h \in Households :
                 pending'[h] # pending[h] /\ pending[h] # << >> =>
                     \/ pending'[h] = << >> /\ IdsOf(pending[h]) \subseteq IdsOf(routed')
                     \/ /\ Len(pending'[h]) > Len(pending[h])
                        /\ SubSeq(pending'[h], 1, Len(pending[h])) = pending[h]]_vars

\* C28 witness: intents of both households have been routed, a hardware
\* intent among them, and nothing
\* is pending or in flight.
C28_Witness ==
    /\ \A h \in Households : pending[h] = << >> /\ handling[h] = 0
    /\ \E i \in DOMAIN routed : routed[i].intent_type = "hardware_disconnected"
    /\ \E i, j \in DOMAIN routed :
           /\ routed[i].household_id = "h1"
           /\ routed[j].household_id = "h2"
    /\ Len(routed) >= MaxEmitted

----------------------------------------------------------------------------
(* Properties of the events of routed intents *)

\* The positions of the queue whose event satisfies Test, in order.
Positions(q, Test(_)) ==
    SelectSeq([i \in 1..Len(q) |-> i], LAMBDA i : Test(q[i]))

IsIntentEvent(e) == e.source = "orchestrator"

IsNotifyingIntentEvent(e) ==
    IsIntentEvent(e) /\ e.payload.intent_type \in NotifyingIntentTypes

IsNotificationCreated(e) == e.event_type = NOTIFICATION_CREATED

\* The notification of event n is the one _create_notification_from_intent
\* requests for the intent of event e.
NotificationOfIntent(e, n) ==
    /\ n.payload.notification_type = NotificationTypeOfIntent(e.payload.intent_type)
    /\ n.payload.severity = DetermineSeverity(e.payload.intent_type)
    /\ n.payload.household_id = e.payload.household_id
    /\ n.payload.context = e.payload.payload

\* C29: the events with source orchestrator on the queue are, one for one
\* and in order, the routed intents, whether or not an intent is of a type
\* that is notified; and every notification.created event on the queue
\* comes after the event of the intent that caused it.
C29_IntentEventBeforeNotification ==
    LET intent_events == Positions(queue, IsIntentEvent)
        notifying == Positions(queue, IsNotifyingIntentEvent)
        created == Positions(queue, IsNotificationCreated)
    IN  /\ Len(intent_events) = Len(routed)
        /\ \A k \in DOMAIN routed :
               /\ queue[intent_events[k]].payload = routed[k]
               /\ queue[intent_events[k]].event_type =
                      IntentToEventType(routed[k].intent_type)
               /\ queue[intent_events[k]].household_id = routed[k].household_id
        /\ Len(created) <= Len(notifying)
        /\ \A k \in DOMAIN created :
               /\ notifying[k] < created[k]
               /\ NotificationOfIntent(queue[notifying[k]], queue[created[k]])

\* C29 witness: the queue holds the event of a routed intent that is not
\* notified and, after the event of a notified intent, its
\* notification.created event.
C29_Witness ==
    /\ \E i \in DOMAIN queue :
           IsIntentEvent(queue[i]) /\ ~IsNotifyingIntentEvent(queue[i])
    /\ \E i, j \in DOMAIN queue :
           /\ i < j
           /\ IsNotifyingIntentEvent(queue[i])
           /\ IsNotificationCreated(queue[j])
           /\ NotificationOfIntent(queue[i], queue[j])
    /\ Len(routed) >= 2

----------------------------------------------------------------------------
(* app/services/confidence_decay_service.py: confidence decay

   Confidences and decay factors are whole ten-thousandths, decay rates
   whole hundredths per hour, times whole hours.  An optional field of an
   item is the empty sequence when the key is missing, None or unparsable,
   and a one-element sequence otherwise. *)

\* 1.0 as a confidence or a factor
One == 10000

MINIMUM_CONFIDENCE == 1000

\* math.exp(-0.01), cut to four decimals
ExpOfMinusHundredth == 9900

\* DECAY_RATES.get(category, DECAY_RATES["default"])
DecayRateOf(category) ==
    CASE category = "dairy" -> 5
      [] category = "produce" -> 4
      [] category = "meat" -> 8
      [] category = "seafood" -> 10
      [] category = "condiments" -> 1
      [] category = "beverages" -> 2
      [] category = "frozen" -> 1
      [] category = "leftovers" -> 6
      [] category = "other" -> 2
      [] OTHER -> 2

Max(a, b) == IF a >= b THEN a ELSE b

\* math.exp(-x) for x whole hundredths: the power of exp(-0.01), cut to four
\* decimals at each factor
RECURSIVE ExpMinus(_)
ExpMinus(x) ==
    IF x <= 0 THEN One ELSE (ExpMinus(x - 1) * ExpOfMinusHundredth) \div One

\* `a or b` on optional numbers: None and 0 are falsy
OrElse(a, b) == IF a # << >> /\ a[1] # 0 THEN a ELSE b

\* get_decay_factor
GetDecayFactor(hours_unseen, category, custom_rate) ==
    IF hours_unseen <= 0 THEN One
    ELSE LET decay_rate == OrElse(custom_rate, << DecayRateOf(Lower(category)) >>)[1]
         IN  ExpMinus(decay_rate * hours_unseen)

\* item.get("base_confidence") or item.get("confidence", 1.0)
BaseConfidence(item) ==
    OrElse(item.base_confidence,
           IF item.confidence = << >> THEN << One >> ELSE item.confidence)[1]

\* The timestamp the decay is counted from: last_seen_at or last_verified_at,
\* else first_detected_at
LastSeen(item) ==
    LET last_seen == IF item.last_seen_at # << >> THEN item.last_seen_at
                     ELSE item.last_verified_at
    IN  IF last_seen # << >> THEN last_seen ELSE item.first_detected_at

\* calculate_effective_confidence
CalculateEffectiveConfidence(item, current_time) ==
    LET base_confidence == BaseConfidence(item)
        last_seen == LastSeen(item)
    IN  IF last_seen = << >> THEN base_confidence
        ELSE LET hours_since_seen == current_time - last_seen[1]
             IN  IF hours_since_seen <= 0 THEN base_confidence
                 ELSE LET category == Lower(item.category)
                          decay_rate ==
                              OrElse(item.decay_rate, << DecayRateOf(category) >>)
                          decay_factor ==
                              GetDecayFactor(hours_since_seen, category, decay_rate)
                          effective_confidence ==
                              (base_confidence * decay_factor) \div One
                      IN  Max(MINIMUM_CONFIDENCE, effective_confidence)

----------------------------------------------------------------------------
(* Direct calls of calculate_effective_confidence *)

Optional(values) == { << >> } \cup { << v >> : v \in values }

DecayItems ==
    [confidence : Optional({ 500, 1000, 9000 }),
     base_confidence : Optional({ 0, 6000 }),
     category : { "dairy", "Dairy", "meat", "pantry" },
     decay_rate : Optional({ 0, 12 }),
     last_seen_at : Optional({ 2 }),
     last_verified_at : Optional({ 3 }),
     first_detected_at : Optional({ 1 })]

EffectiveConfidenceCall(item, current_time) ==
    /\ opResult' = [op |-> "calculate_effective_confidence", item |-> item,
                    current_time |-> current_time,
                    result |-> CalculateEffectiveConfidence(item, current_time)]
    /\ UNCHANGED <<now, ticks, cache, accepted>>
    /\ UnchangedService
    /\ UnchangedBus


IsEffectiveConfidence ==
    opResult # NoOp /\ opResult.op = "calculate_effective_confidence"

----------------------------------------------------------------------------
(* Properties of the confidence decay *)

\* C30: for an item with a last-seen timestamp and any current time, one at
\* or before last-seen counting as zero hours, calculate_effective_confidence
\* returns the larger of the floor 0.1 and base confidence times decay
\* factor, and so never less than 0.1.
C30_EffectiveConfidenceFloored ==
    IsEffectiveConfidence /\ LastSeen(opResult.item) # << >> =>
        LET hours_since_seen ==
                Max(0, opResult.current_time - LastSeen(opResult.item)[1])
            decay_factor ==
                GetDecayFactor(hours_since_seen, opResult.item.category,
                               opResult.item.decay_rate)
        IN  /\ opResult.result =
                   Max(MINIMUM_CONFIDENCE,
                       (BaseConfidence(opResult.item) * decay_factor) \div One)
            /\ opResult.result >= MINIMUM_CONFIDENCE

\* C31: for a fixed item, calculate_effective_confidence does not grow with
\* elapsed time: the value at a current time is at most the value at any
\* earlier current time.
C31_NonIncreasingInElapsedTime ==
    IsEffectiveConfidence =>
        \A t1 \in 0..opResult.current_time :
            opResult.result <= CalculateEffectiveConfidence(opResult.item, t1)

----------------------------------------------------------------------------
(* app/services/confidence_decay_service.py: hours until a threshold *)

STALE_THRESHOLD == 5000

\* -math.log(num / den) in whole hundredths, rounded up: the first x from
\* the given one on at which exp(-x / 100), here factor and computed as
\* ExpMinus computes it, is down to num / den
RECURSIVE MinusLog(_, _, _, _)
MinusLog(num, den, factor, x) ==
    IF factor * den <= num * One THEN x
    ELSE MinusLog(num, den, (factor * ExpOfMinusHundredth) \div One, x + 1)

\* -math.log(num / den) / decay_rate in whole hours, rounded up
HoursToRatio(num, den, decay_rate) ==
    (MinusLog(num, den, One, 0) + decay_rate - 1) \div decay_rate

\* estimate_time_to_stale; the result is empty for None
EstimateTimeToStale(item, threshold_arg) ==
    LET threshold == IF threshold_arg = << >> THEN STALE_THRESHOLD
                     ELSE threshold_arg[1]
        base_confidence == BaseConfidence(item)
        category == Lower(item.category)
        decay_rate == OrElse(item.decay_rate, << DecayRateOf(category) >>)[1]
    IN  IF base_confidence <= threshold THEN << 0 >>
        ELSE IF decay_rate <= 0 THEN << >>
        ELSE IF base_confidence = 0 THEN << >>
        ELSE IF threshold <= 0 \/ threshold >= base_confidence THEN << >>
        ELSE << Max(0, HoursToRatio(threshold, base_confidence, decay_rate)) >>

\* estimate_time_to_stale reads no timestamp of the item.
EstimateItems ==
    { item \in DecayItems :
          item.last_verified_at = << >> /\ item.first_detected_at = << >> }

DecayThresholds == Optional({ -1000, 0, 3000, 6000 })

EstimateTimeToStaleCall(item, threshold) ==
    /\ opResult' = [op |-> "estimate_time_to_stale", item |-> item,
                    threshold |-> threshold,
                    result |-> EstimateTimeToStale(item, threshold)]
    /\ UNCHANGED <<now, ticks, cache, accepted>>
    /\ UnchangedService
    /\ UnchangedBus

DecayEffective ==
    /\ opResult = NoOp
    /\ \E item \in DecayItems, current_time \in 0..MaxHoursDecay :
           EffectiveConfidenceCall(item, current_time)

DecayEstimate ==
    /\ opResult = NoOp
    /\ \E item \in EstimateItems, threshold \in DecayThresholds :
           EstimateTimeToStaleCall(item, threshold)

NextDecay == DecayEffective \/ DecayEstimate

SpecDecay == Init /\ [][NextDecay]_vars

IsEstimate == opResult # NoOp /\ opResult.op = "estimate_time_to_stale"

ThresholdOf(threshold_arg) ==
    IF threshold_arg = << >> THEN STALE_THRESHOLD ELSE threshold_arg[1]

\* C32: the hours-to-threshold estimate is None whenever the base confidence
\* is at or below the threshold and whenever threshold / base confidence is
\* not strictly between 0 and 1.
C32_EstimateNullWhenBelowOrOutOfRange ==
    IsEstimate =>
        LET threshold == ThresholdOf(opResult.threshold)
            base_confidence == BaseConfidence(opResult.item)
        IN  (\/ base_confidence <= threshold
             \/ ~(0 < threshold /\ threshold < base_confidence))
                => opResult.result = << >>

----------------------------------------------------------------------------
(* Properties of additions and removals between two frames *)

\* The lower-cased names a frame lists with a confidence of at least the
\* presence threshold.
PresentNames(items) ==
    { Lower(items[i].name) : i \in { j \in DOMAIN items :
                                        items[j].confidence >= PRESENCE_THRESHOLD } }

\* The lower-cased names the events of a list are about.
EventNames(events) == { Lower(events[i].item_name) : i \in DOMAIN events }

\* C33: against a previous frame, a name is reported as ItemAdded exactly
\* when the current frame has it with confidence at least 0.5 and the
\* previous frame does not have it with confidence at least 0.5.
C33_AddedOnFilteredSets ==
    LaterFrameCall =>
        EventNames(opResult.changes.items_added)
            = PresentNames(opResult.current_items) \ PresentNames(PreviousItems)

\* C34: a name is reported as ItemRemoved exactly when the previous frame
\* has it with confidence at least 0.5, the current frame does not have it
\* with confidence at least 0.5, and at least one buffered frame lists it.
C34_RemovedOnFilteredSets ==
    LaterFrameCall =>
        EventNames(opResult.changes.items_removed)
            = { n \in PresentNames(PreviousItems) \ PresentNames(opResult.current_items) :
                    CountPresenceInHistory(n, opResult.previous_frames) >= 1 }

----------------------------------------------------------------------------
(* app/api/routes/iot.py and app/api/routes/upload.py: image requests

   A request is a task of the event loop.  It runs from one suspension to
   the next: the awaits on the vision service and the database suspend it,
   an await on a coroutine that itself awaits nothing does not.  An upload
   is the file received: whether its content type is an image, whether
   validate_fridge_image takes it for a fridge, and the analysis
   analyze_fridge_image returns for it. *)

\* f"iot_image:{household_id}"
IotImageKey(household_id) == "iot_image:" \o household_id

\* should_accept_iot_image
ShouldAcceptIotImage(c, household_id, t) ==
    ShouldAccept(c, IotImageKey(household_id), IotImageDebounceSeconds, t)

EmitTemporalIntentsSuspends_Yields(changes) == TRUE

\* `await self._emit_temporal_intents(changes)`: the coroutine only calls
\* emit_intent, a plain method, so the await never hands control to the
\* event loop.
EmitTemporalIntentsSuspends(changes) == FALSE

Request(source, household_id, upload, t, pc, status) ==
    [source |-> source, household_id |-> household_id, upload |-> upload,
     at |-> t, pc |-> pc, status |-> status, compared |-> << >>]

UnchangedByRequest ==
    /\ UNCHANGED <<now, ticks, delivered, queue, nextId, ncalls, lastCall>>
    /\ UNCHANGED busVars
    /\ UNCHANGED obsVars
    /\ UNCHANGED <<callers, lock, history, appended, pending, routed, l1_agents,
                   handling>>

\* ingest_iot_image up to its first suspension, the await on
\* validate_fridge_image; the device token is a valid one.
IotIngest(household_id, upload) ==
    LET gate == ShouldAcceptIotImage(cache, household_id, now)
    IN  /\ cache' = gate.cache
        /\ requests' = Append(requests,
               IF ~gate.accepted
               THEN Request("iot", household_id, upload, now, "done", "debounced")
               ELSE IF ~upload.image
               THEN Request("iot", household_id, upload, now, "done", "bad_request")
               ELSE Request("iot", household_id, upload, now, "validate", "pending"))
        /\ UNCHANGED trace
        /\ UnchangedByRequest

\* upload_fridge_image up to the await on validate_fridge_image
UploadIngest(household_id, upload) ==
    /\ requests' = Append(requests,
           IF ~upload.image
           THEN Request("upload", household_id, upload, now, "done", "bad_request")
           ELSE Request("upload", household_id, upload, now, "validate", "pending"))
    /\ UNCHANGED <<cache, trace>>
    /\ UnchangedByRequest

TraceEntry(k, op) == [call |-> k, op |-> op]

\* The event loop resumes request k: from the result of
\* validate_fridge_image to the await on analyze_fridge_image, or from the
\* result of the analysis through orchestrator.process to the end of
\* `await fridge_agent.process(...)`.
Resume(k) ==
    LET r == requests[k]
        h == r.household_id
        analysis == r.upload.analysis
    IN  /\ r.pc # "done"
        /\ CASE r.pc = "validate" ->
                  /\ requests' = [requests EXCEPT ![k] =
                         IF r.upload.valid THEN [r EXCEPT !.pc = "analyze"]
                         ELSE [r EXCEPT !.pc = "done", !.status = "rejected"]]
                  /\ UNCHANGED <<cache, trace>>
                  /\ UnchangedByRequest
             [] r.pc = "analyze" /\ r.source = "upload" /\ analysis.empty ->
                  /\ requests' = [requests EXCEPT ![k] =
                                     [r EXCEPT !.pc = "done", !.status = "error"]]
                  /\ UNCHANGED <<cache, trace>>
                  /\ UnchangedByRequest
             [] r.pc = "analyze" /\ ~(r.source = "upload" /\ analysis.empty) ->
                  IF ~analysis.empty
                     /\ EmitTemporalIntentsSuspends(
                            CompareFrames(analysis.items, history[h]))
                  THEN /\ requests' = [requests EXCEPT ![k] =
                              [r EXCEPT !.pc = "store", !.compared = history[h]]]
                       /\ trace' = [trace EXCEPT ![h] =
                                       Append(@, TraceEntry(k, "compare"))]
                       /\ UNCHANGED cache
                       /\ UnchangedByRequest
                  ELSE /\ FridgeProcess(h, analysis)
                       /\ l1_agents' = RegisterAgent(l1_agents, h)
                       /\ handling' = [handling EXCEPT ![h] = @ + 1]
                       /\ requests' = [requests EXCEPT ![k] =
                              [r EXCEPT !.pc = "done", !.status = "success"]]
                       /\ trace' = [trace EXCEPT ![h] =
                              IF analysis.empty THEN @
                              ELSE @ \o << TraceEntry(k, "compare"),
                                           TraceEntry(k, "append") >>]
             [] r.pc = "store" ->
                  /\ FridgeProcessAgainst(h, analysis, r.compared)
                  /\ l1_agents' = RegisterAgent(l1_agents, h)
                  /\ handling' = [handling EXCEPT ![h] = @ + 1]
                  /\ requests' = [requests EXCEPT ![k] =
                         [r EXCEPT !.pc = "done", !.status = "success"]]
                  /\ trace' = [trace EXCEPT ![h] =
                                  Append(@, TraceEntry(k, "append"))]

----------------------------------------------------------------------------
(* Image requests of the two routes in any interleaving *)

Upload(image, valid, analysis) ==
    [image |-> image, valid |-> valid, analysis |-> analysis]

\* A file that is no image, an image that is no fridge, and a fridge image.
RouteUploads ==
    { Upload(FALSE, FALSE, NoAnalysis),
      Upload(TRUE, FALSE, NoAnalysis),
      Upload(TRUE, TRUE, Analysis(<< Milk("door") >>, 80)) }

RoutesIot ==
    \E household_id \in Households, upload \in RouteUploads :
        /\ Len(requests) < MaxRequests
        /\ IotIngest(household_id, upload)

\* Manual uploads: an image that is no fridge, and a fridge image.
RoutesUpload ==
    \E household_id \in Households,
       upload \in { u \in RouteUploads : u.image } :
        /\ Len(requests) < MaxUploads
        /\ UploadIngest(household_id, upload)

RoutesResume == \E k \in DOMAIN requests : Resume(k)

\* The routing that ends a request, every delivery succeeding.
RoutesCollect ==
    \E household_id \in Households :
        /\ ImageCollectAmong(household_id, { << {}, << IN_APP, PUSH, ALEXA >> >> })
        /\ UNCHANGED <<requests, trace>>

\* The server clock moves on, by a second or by a debounce interval.
RoutesTick ==
    /\ ticks < MaxTicksRoutes
    /\ \E d \in { 1, IotImageDebounceSeconds } : now' = now + d
    /\ ticks' = ticks + 1
    /\ UNCHANGED <<cache, delivered, queue, nextId, ncalls, lastCall>>
    /\ UNCHANGED busVars
    /\ UNCHANGED obsVars
    /\ UNCHANGED agentVars

\* IoT cameras against the debounce window of their household.
NextIot == RoutesTick \/ RoutesIot \/ RoutesResume \/ RoutesCollect

SpecIot == Init /\ [][NextIot]_vars

\* Manual uploads of the households in flight together.
NextUploads == RoutesUpload \/ RoutesResume \/ RoutesCollect

SpecUploads == Init /\ [][NextUploads]_vars

----------------------------------------------------------------------------
(* Properties of the image requests *)

\* C35: on the buffer of a household, every comparison is directly followed
\* by the append of the same call: no other call compares against or
\* appends to the buffer in between, and no two calls are compared against
\* the same buffer state.
C35_CompareThenAppendNotInterleaved ==
    \A h \in Households :
        \A i \in DOMAIN trace[h] :
            /\ trace[h][i].op = "compare" /\ i < Len(trace[h]) =>
                   trace[h][i + 1] = TraceEntry(trace[h][i].call, "append")
            /\ trace[h][i].op = "append" =>
                   i > 1 /\ trace[h][i - 1] = TraceEntry(trace[h][i].call, "compare")

\* C35 witness: two requests for one household were in flight together,
\* both suspended before their analysis came back, and both have since
\* compared against and appended to the buffer of that household.
C35_Witness ==
    \E j, k \in DOMAIN requests :
        /\ j < k
        /\ requests[j].household_id = requests[k].household_id
        /\ requests[j].status = "success" /\ requests[k].status = "success"
        /\ Len(trace[requests[j].household_id]) = 4
        /\ trace[requests[j].household_id][1].call = k

----------------------------------------------------------------------------
(* The debounce window of the IoT route *)

\* Request j is an IoT image of the household of request k that came in
\* less than a debounce interval before k.
ShortlyBefore(j, k) ==
    /\ j < k
    /\ requests[j].source = "iot"
    /\ requests[j].household_id = requests[k].household_id
    /\ requests[k].at - requests[j].at < IotImageDebounceSeconds

\* C36: an IoT image is answered "debounced" only if another IoT image of
\* the same household was accepted less than 900 s earlier; an upload
\* answered 400 for not being an image, or "rejected" by the fridge
\* validation, starts no debounce window.
C36_DebouncedOnlyAfterAccepted ==
    \A k \in DOMAIN requests :
        requests[k].source = "iot" /\ requests[k].status = "debounced" =>
            \E j \in DOMAIN requests :
                /\ ShortlyBefore(j, k)
                /\ requests[j].status \notin { "debounced", "bad_request", "rejected" }

----------------------------------------------------------------------------
(* The dispatch loops of one bus *)

RestartEvents ==
    { BusEvent(id, "inventory.updated") : id \in 1..MaxPublishRestart }

\* A bus with one wildcard subscriber that is started, stopped and started
\* again while events are published.
NextRestart ==
    \/ Len(tasks) < MaxTasksRestart /\ Start
    \/ Stop
    \/ NumSubs < 1 /\ SubscribeAll("hA")
    \/ npub < MaxPublishRestart /\ \E e \in RestartEvents : Publish(e)
    \/ \E k \in DOMAIN tasks : Dequeue(k)
    \/ \E k \in DOMAIN tasks : WorkerExit(k)
    \/ \E k \in DOMAIN tasks, o \in {"ok", "raise", "cancelled"} : HandlerReturns(k, o)

SpecRestart == Init /\ [][NextRestart]_vars

\* The ids published so far: those waiting in the queue and those that
\* passed the duplicate check.
PublishedIds ==
    { queue[i].event_id : i \in DOMAIN queue } \cup dispatchLog.ever

\* Event ids are uuid4 strings and only compared for equality, so the ids
\* are numbered in the order of their first publish: an event has the next
\* fresh id or repeats one already published.
RedeliverEvents ==
    { BusEvent(id, "inventory.updated") :
          id \in 1..Min(Cardinality(PublishedIds) + 1, MaxProcessedCache + 1) }

\* A bus with one wildcard subscriber that is stopped and started again,
\* once, while events are published, some of them again under the id of an
\* earlier one.
NextRedeliver ==
    \/ Len(tasks) < 2 /\ Start
    \/ Stop
    \/ NumSubs < 1 /\ SubscribeAll("hA")
    \/ npub < MaxPublishDedup /\ \E e \in RedeliverEvents : Publish(e)
    \/ \E k \in DOMAIN tasks : Dequeue(k)
    \/ \E k \in DOMAIN tasks : WorkerExit(k)
    \/ \E k \in DOMAIN tasks, o \in {"ok", "raise", "cancelled"} : HandlerReturns(k, o)

SpecRedeliver == Init /\ [][NextRedeliver]_vars

\* The tasks still inside _process_events with no cancellation on its way
\* to them.
ActiveLoops == { k \in DOMAIN tasks : Alive(k) /\ ~tasks[k].cancel }

\* C37: whatever the interleaving of start() and stop() calls, a bus has
\* at most one active dispatch loop, so no two workers take events off the
\* queue and no two events are in dispatch together.
C37_AtMostOneDispatchLoop == Cardinality(ActiveLoops) <= 1

----------------------------------------------------------------------------
(* The event types of published findings *)

\* C38: every finding of a fridge agent is published under its own event
\* type: the event _route_intents publishes for an intent is no
\* system.error, and intents of two types are published under two event
\* types.
C38_FindingsUnderOwnEventType ==
    \A i \in DOMAIN queue :
        IsIntentEvent(queue[i]) =>
            /\ queue[i].event_type # "system.error"
            /\ \A j \in DOMAIN queue :
                   IsIntentEvent(queue[j])
                   /\ queue[j].payload.intent_type # queue[i].payload.intent_type
                       => queue[j].event_type # queue[i].event_type

----------------------------------------------------------------------------
(* The duplicate check across failed and cancelled dispatches *)

\* C39 as stated: once an event was dequeued for dispatch, a later event
\* with its event_id invokes no handler, whatever became of the first
\* dispatch.
C39_LaterSameIdInvokesNoHandler ==
    [][ IsDequeue /\ Head(queue).event_id \in dispatchLog.ever =>
            /\ dispatchLog' = dispatchLog
            /\ \A k \in DOMAIN tasks : tasks'[k].d = tasks[k].d
      ]_vars

\* C39 amended: an id is in the processed set from the moment the first
\* handler of its event is called, and a later event with that id invokes
\* no handler, also when every handler of the first dispatch failed twice
\* or stop() cut the dispatch short, as long as the processed-id cache was
\* not trimmed during or after the first dispatch.
C39_RecordedBeforeHandlersWhileCached ==
    /\ [](dispatchLog.sinceTrim \subseteq processed)
    /\ [][ IsDequeue /\ Head(queue).event_id \in dispatchLog.sinceTrim =>
                /\ dispatchLog' = dispatchLog
                /\ processed' = processed
                /\ \A k \in DOMAIN tasks : tasks'[k].d = tasks[k].d
          ]_vars

\* C39 witness: four events with two ids were dequeued and two of them
\* dispatched.  The dispatch of id 1 was cut short by stop() inside the
\* handler, the dispatch of id 2 by the restarted worker failed on both
\* attempts, and the second event of each id invoked no handler.
C39_Witness ==
    /\ npub = 4
    /\ queue = << >>
    /\ dispatchLog.n = 2
    /\ dispatchLog.ever = {1, 2}
    /\ dispatchLog.reinvoked = {}
    /\ Len(tasks) = 2
    /\ tasks[1].d.event_id = 1 /\ tasks[1].d.first = << "cancelled" >>
    /\ tasks[2].d.event_id = 2
    /\ tasks[2].d.first = << "raise" >> /\ tasks[2].d.retry = << "raise" >>

----------------------------------------------------------------------------
(* Notifications outside the expiry throttle *)

\* C40: a create_notification call whose type is not perishable_expiry, or
\* whose source_id is absent, leaves the throttle map as it is and yields
\* a delivered Notification, appended to the delivered list, however
\* recently the same notification was created for the household.
C40_OnlyExpiryWithSourceIdThrottled ==
    [][ IsCall /\ (\/ lastCall'.args.notification_type # PERISHABLE_EXPIRY
                   \/ lastCall'.args.source_id = None)
        => /\ cache' = cache
           /\ lastCall'.status = "delivered"
           /\ Len(delivered') = Len(delivered) + 1
           /\ Last(delivered').id = lastCall'.notification_id
           /\ Last(delivered').delivery_status = "delivered"
      ]_vars

\* C40 witness: the same procurement notification, source id included, was
\* created twice for one household at one time and delivered both times,
\* the throttle map still empty.
C40_Witness ==
    /\ ncalls = 2
    /\ ticks = 0
    /\ cache = << >>
    /\ Len(delivered) = 2
    /\ \A i \in 1..2 :
          /\ delivered[i].notification_type = "procurement_required"
          /\ delivered[i].household_id = "h1"
          /\ delivered[i].source_id = "milk"
          /\ delivered[i].delivery_status = "delivered"

====
